---- MODULE Spec2Model ----
(***************************************************************************)
(* A model of LLPathfindingManager (indra/newview/llpathfindingmanager.cpp) *)
(* and of the responders it hands to the HTTP client: the linksets join    *)
(* (LinksetsResponder), the agent state machine and the per-region navmesh *)
(* entries.                                                                *)
(*                                                                         *)
(* All handlers run on one thread, so every operation and every completion *)
(* (Responder::result / Responder::error) is one atomic action.  The HTTP  *)
(* client is the variable http: the bag of operations that were issued and *)
(* are not yet answered; each is answered exactly once, by result or error.*)
(* What the viewer reads from outside the manager (gAgent, the region's    *)
(* capabilities, the bodies of the responses) is an input of the action.   *)
(***************************************************************************)
EXTENDS Bags, FiniteSets, Integers, Sequences, TLC

VARIABLES
    mNavMeshMap,                  \* LLPathfindingManager::mNavMeshMap
    mNavMeshVersionXXX,           \* LLPathfindingManager::mNavMeshVersionXXX
    mAgentStateSignal,            \* the slots connected to mAgentStateSignal
    mAgentState,                  \* LLPathfindingManager::mAgentState
    mLastKnownNonErrorAgentState, \* LLPathfindingManager::mLastKnownNonErrorAgentState
    linksetsResponders,           \* every LinksetsResponder constructed so far
    linksetsReceived,             \* the bodies each LinksetsResponder was handed
    handlersRunning,              \* the LinksetsResponder handlers under way
    http,                         \* the HTTP operations in flight
    crashed,                      \* the viewer has crashed
    lastCall                      \* the operation that ran last, what it read and did

vars == <<mNavMeshMap, mNavMeshVersionXXX, mAgentStateSignal, mAgentState,
          mLastKnownNonErrorAgentState, linksetsResponders, linksetsReceived,
          handlersRunning, http, crashed, lastCall>>

navMeshVars == <<mNavMeshMap, mNavMeshVersionXXX>>
agentStateVars == <<mAgentStateSignal, mAgentState, mLastKnownNonErrorAgentState>>
linksetsVars == <<linksetsResponders, linksetsReceived, handlersRunning>>

----------------------------------------------------------------------------
(* Bounds of the model.                                                    *)

\* LinksetsResponder objects constructed in one behaviour.
MaxResponders == 1
\* Agent-state requests in flight at once.
MaxAgentRequests == 2
\* Navmesh requests in flight at once.
MaxNavMeshRequests == 2
\* Navmesh-changed notifications in one behaviour.
MaxNavMeshVersion == 1
\* Slots connected to mAgentStateSignal.
MaxListeners == 2
\* Slots connected to the signals of the navmesh entries, all together.
MaxNavMeshListeners == 1

----------------------------------------------------------------------------
(* Names of the capabilities and wire fields.                              *)

CAP_SERVICE_RETRIEVE_NAVMESH == "RetrieveNavMeshSrc"
CAP_SERVICE_AGENT_STATE == "AgentPreferences"
CAP_SERVICE_OBJECT_LINKSETS == "ObjectNavMeshProperties"
CAP_SERVICE_TERRAIN_LINKSETS == "TerrainNavMeshProperties"

CapabilityNames ==
    {CAP_SERVICE_RETRIEVE_NAVMESH, CAP_SERVICE_AGENT_STATE,
     CAP_SERVICE_OBJECT_LINKSETS, CAP_SERVICE_TERRAIN_LINKSETS}

----------------------------------------------------------------------------
(* The world outside the manager: regions and the agent.                   *)

\* A null pointer (LLViewerRegion*, or an empty shared pointer).
NULL == [null |-> TRUE]

RegionIds == {"regionA", "regionB"}

\* The LLUUID a default-constructed LLUUID holds.
NullRegionId == "00000000"

\* An LLViewerRegion as far as the manager reads it: its id, the capabilities
\* it grants and whether the agent may manage its estate.
ViewerRegions ==
    [mRegionID : RegionIds, mCapabilities : SUBSET CapabilityNames,
     canManageEstate : BOOLEAN]

\* gAgent as far as the manager reads it.
Agents == [region : ViewerRegions \cup {NULL}, godlike : BOOLEAN]

\* The agents that differ in what an operation reads: one that reads only the
\* capabilities in names of the current region, not the region's id, and the
\* agent's rights only if readsRights.
AgentsReading(names, readsRights) ==
    {agent \in Agents :
        /\ readsRights \/ ~agent.godlike
        /\ agent.region # NULL =>
            /\ agent.region.mCapabilities \subseteq names
            /\ agent.region.mRegionID = CHOOSE id \in RegionIds : TRUE
            /\ readsRights \/ ~agent.region.canManageEstate}

\* LLViewerRegion::getCapability: the URL of a granted capability, else "".
getCapability(pRegion, pCapabilityName) ==
    IF pCapabilityName \in pRegion.mCapabilities
    THEN "cap://" \o pCapabilityName
    ELSE ""

getCurrentRegion(agent) == agent.region

getCapabilityURLForRegion(pRegion, pCapabilityName) ==
    IF pRegion # NULL THEN getCapability(pRegion, pCapabilityName) ELSE ""

getCapabilityURLForCurrentRegion(agent, pCapabilityName) ==
    getCapabilityURLForRegion(getCurrentRegion(agent), pCapabilityName)

getObjectLinksetsURLForCurrentRegion(agent) ==
    getCapabilityURLForCurrentRegion(agent, CAP_SERVICE_OBJECT_LINKSETS)

getTerrainLinksetsURLForCurrentRegion(agent) ==
    getCapabilityURLForCurrentRegion(agent, CAP_SERVICE_TERRAIN_LINKSETS)

isAllowViewTerrainProperties(agent) ==
    LET region == getCurrentRegion(agent)
    IN  agent.godlike \/ (region # NULL /\ region.canManageEstate)

----------------------------------------------------------------------------
(* The HTTP client.                                                        *)

\* One operation handed to LLHTTPClient and the responder that answers it.
HTTPRequest(method, url, body, responder) ==
    [method |-> method, url |-> url, body |-> body, responder |-> responder]

\* The operations a handler issued, in order, as a bag.
RECURSIVE Issued(_)
Issued(requests) ==
    IF requests = <<>> THEN EmptyBag
    ELSE SetToBag({Head(requests)}) (+) Issued(Tail(requests))

\* The status codes a transport error carries.
ErrorStatuses == {500}

----------------------------------------------------------------------------
(* Linksets and linkset lists (LLPathfindingLinkset, LLPathfindingLinksetList). *)

ObjectIds == {"obj1", "obj2"}

\* The identifier of the terrain's linkset.
TerrainId == "terrain"

LinksetUses == {"walkable"}

\* The body of a successful object-linksets response: a map from object id to
\* the navigation properties of that object.
ObjectLinksetsContents ==
    UNION {[ids -> LinksetUses] : ids \in SUBSET ObjectIds}

\* The body of a successful terrain-linksets response.
TerrainLinksetsContents == [linkset_use : LinksetUses]

\* LLPathfindingLinkset built for one object of an object-linksets body.
LLPathfindingLinksetObject(pUUID, pUse) ==
    [mUUID |-> pUUID, mLinksetUse |-> pUse, mIsTerrain |-> FALSE]

\* LLPathfindingLinkset(pContent), the terrain's linkset.
LLPathfindingLinksetTerrain(pContent) ==
    [mUUID |-> TerrainId, mLinksetUse |-> pContent.linkset_use, mIsTerrain |-> TRUE]

\* LLPathfindingLinksetList(), the empty list.
LLPathfindingLinksetListEmpty == <<>>

\* LLPathfindingLinksetList(pContent): one linkset per entry of the body,
\* keyed by the string form of its id.
LLPathfindingLinksetList(pContent) ==
    [id \in DOMAIN pContent |-> LLPathfindingLinksetObject(id, pContent[id])]

\* std::map::insert on the list: an existing key keeps its linkset.
LinksetListInsert(list, key, linkset) ==
    IF key \in DOMAIN list THEN list ELSE (key :> linkset) @@ list

----------------------------------------------------------------------------
(* LinksetsResponder: the join of the object and the terrain operation.    *)

kNotRequested == "kNotRequested"
kWaiting == "kWaiting"
kReceivedGood == "kReceivedGood"
kReceivedError == "kReceivedError"

kLinksetsRequestStarted == "kLinksetsRequestStarted"
kLinksetsRequestCompleted == "kLinksetsRequestCompleted"
kLinksetsRequestNotEnabled == "kLinksetsRequestNotEnabled"
kLinksetsRequestError == "kLinksetsRequestError"

\* The callbacks a caller passes to requestGetLinksets / requestSetLinksets.
LinksetsCallbacks == {"linksetsCallback"}

\* LinksetsResponder::LinksetsResponder.  callbackLog is the record of the
\* invocations of mLinksetsCallback: the status and list it was handed, and
\* the messaging states sendCallback's llasserts read.
LinksetsResponder(pLinksetsCallback, pIsObjectRequested, pIsTerrainRequested) ==
    [mLinksetsCallback |-> pLinksetsCallback,
     mObjectMessagingState |-> IF pIsObjectRequested THEN kWaiting ELSE kNotRequested,
     mTerrainMessagingState |-> IF pIsTerrainRequested THEN kWaiting ELSE kNotRequested,
     mObjectLinksetListPtr |-> NULL,
     mTerrainLinksetPtr |-> NULL,
     callbackLog |-> <<>>]

\* sendCallback classifying by the object branch alone.
sendCallbackObjectOnlyStatus(self) ==
    LET requestStatus ==
            IF self.mObjectMessagingState = kReceivedGood
               \/ self.mObjectMessagingState = kNotRequested
            THEN kLinksetsRequestCompleted
            ELSE kLinksetsRequestError
        list1 == IF self.mObjectMessagingState # kReceivedGood
                 THEN LLPathfindingLinksetListEmpty
                 ELSE self.mObjectLinksetListPtr
        list2 == IF self.mTerrainMessagingState = kReceivedGood
                 THEN LinksetListInsert(list1, self.mTerrainLinksetPtr.mUUID,
                                        self.mTerrainLinksetPtr)
                 ELSE list1
    IN  [self EXCEPT
            !.mObjectLinksetListPtr = list2,
            !.callbackLog = Append(@,
                [callback |-> self.mLinksetsCallback,
                 requestStatus |-> requestStatus,
                 linksetList |-> list2,
                 objectState |-> self.mObjectMessagingState,
                 terrainState |-> self.mTerrainMessagingState])]

\* sendCallback handing over an empty list whenever the status is an error.
sendCallbackEmptyOnError(self) ==
    LET good == /\ (self.mObjectMessagingState = kReceivedGood
                    \/ self.mObjectMessagingState = kNotRequested)
                /\ (self.mTerrainMessagingState = kReceivedGood
                    \/ self.mTerrainMessagingState = kNotRequested)
        list1 == IF ~good \/ self.mObjectMessagingState # kReceivedGood
                 THEN LLPathfindingLinksetListEmpty
                 ELSE self.mObjectLinksetListPtr
        list2 == IF good /\ self.mTerrainMessagingState = kReceivedGood
                 THEN LinksetListInsert(list1, self.mTerrainLinksetPtr.mUUID,
                                        self.mTerrainLinksetPtr)
                 ELSE list1
    IN  [self EXCEPT
            !.mObjectLinksetListPtr = list2,
            !.callbackLog = Append(@,
                [callback |-> self.mLinksetsCallback,
                 requestStatus |-> IF good THEN kLinksetsRequestCompleted
                                   ELSE kLinksetsRequestError,
                 linksetList |-> list2,
                 objectState |-> self.mObjectMessagingState,
                 terrainState |-> self.mTerrainMessagingState])]

\* sendCallback that leaves the terrain's linkset out of the list.
sendCallbackWithoutTerrain(self) ==
    LET requestStatus ==
            IF /\ (self.mObjectMessagingState = kReceivedGood
                   \/ self.mObjectMessagingState = kNotRequested)
               /\ (self.mTerrainMessagingState = kReceivedGood
                   \/ self.mTerrainMessagingState = kNotRequested)
            THEN kLinksetsRequestCompleted
            ELSE kLinksetsRequestError
        list1 == IF self.mObjectMessagingState # kReceivedGood
                 THEN LLPathfindingLinksetListEmpty
                 ELSE self.mObjectLinksetListPtr
    IN  [self EXCEPT
            !.mObjectLinksetListPtr = list1,
            !.callbackLog = Append(@,
                [callback |-> self.mLinksetsCallback,
                 requestStatus |-> requestStatus,
                 linksetList |-> list1,
                 objectState |-> self.mObjectMessagingState,
                 terrainState |-> self.mTerrainMessagingState])]

\* sendCallback adding the terrain's linkset only to the list of a request that
\* completed.
sendCallbackTerrainOnlyWhenCompleted(self) ==
    LET requestStatus ==
            IF /\ (self.mObjectMessagingState = kReceivedGood
                   \/ self.mObjectMessagingState = kNotRequested)
               /\ (self.mTerrainMessagingState = kReceivedGood
                   \/ self.mTerrainMessagingState = kNotRequested)
            THEN kLinksetsRequestCompleted
            ELSE kLinksetsRequestError
        list1 == IF self.mObjectMessagingState # kReceivedGood
                 THEN LLPathfindingLinksetListEmpty
                 ELSE self.mObjectLinksetListPtr
        list2 == IF /\ self.mTerrainMessagingState = kReceivedGood
                    /\ requestStatus = kLinksetsRequestCompleted
                 THEN LinksetListInsert(list1, self.mTerrainLinksetPtr.mUUID,
                                        self.mTerrainLinksetPtr)
                 ELSE list1
    IN  [self EXCEPT
            !.mObjectLinksetListPtr = list2,
            !.callbackLog = Append(@,
                [callback |-> self.mLinksetsCallback,
                 requestStatus |-> requestStatus,
                 linksetList |-> list2,
                 objectState |-> self.mObjectMessagingState,
                 terrainState |-> self.mTerrainMessagingState])]

\* LinksetsResponder::sendCallback
sendCallback(self) ==
    LET requestStatus ==
            IF /\ (self.mObjectMessagingState = kReceivedGood
                   \/ self.mObjectMessagingState = kNotRequested)
               /\ (self.mTerrainMessagingState = kReceivedGood
                   \/ self.mTerrainMessagingState = kNotRequested)
            THEN kLinksetsRequestCompleted
            ELSE kLinksetsRequestError
        list1 == IF self.mObjectMessagingState # kReceivedGood
                 THEN LLPathfindingLinksetListEmpty
                 ELSE self.mObjectLinksetListPtr
        list2 == IF self.mTerrainMessagingState = kReceivedGood
                 THEN LinksetListInsert(list1, self.mTerrainLinksetPtr.mUUID,
                                        self.mTerrainLinksetPtr)
                 ELSE list1
    IN  [self EXCEPT
            !.mObjectLinksetListPtr = list2,
            !.callbackLog = Append(@,
                [callback |-> self.mLinksetsCallback,
                 requestStatus |-> requestStatus,
                 linksetList |-> list2,
                 objectState |-> self.mObjectMessagingState,
                 terrainState |-> self.mTerrainMessagingState])]

\* LinksetsResponder::handleObjectLinksetsResult
handleObjectLinksetsResult(self, pContent) ==
    LET received == [self EXCEPT
                        !.mObjectLinksetListPtr = LLPathfindingLinksetList(pContent),
                        !.mObjectMessagingState = kReceivedGood]
    IN  IF received.mTerrainMessagingState # kWaiting
        THEN sendCallback(received)
        ELSE received

\* handleObjectLinksetsError sending the callback without looking at the
\* terrain branch.
handleObjectLinksetsErrorNoJoin(self, pStatus) ==
    sendCallback([self EXCEPT !.mObjectMessagingState = kReceivedError])

\* handleObjectLinksetsError sending the callback only once the terrain branch
\* has received something.
handleObjectLinksetsErrorWaitsForTerrain(self, pStatus) ==
    LET received == [self EXCEPT !.mObjectMessagingState = kReceivedError]
    IN  IF received.mTerrainMessagingState = kReceivedGood
           \/ received.mTerrainMessagingState = kReceivedError
        THEN sendCallback(received)
        ELSE received

\* LinksetsResponder::handleObjectLinksetsError
handleObjectLinksetsError(self, pStatus) ==
    LET received == [self EXCEPT !.mObjectMessagingState = kReceivedError]
    IN  IF received.mTerrainMessagingState # kWaiting
        THEN sendCallback(received)
        ELSE received

\* handleTerrainLinksetsResult sending the callback without looking at the
\* object branch.
handleTerrainLinksetsResultNoJoin(self, pContent) ==
    sendCallback([self EXCEPT
        !.mTerrainLinksetPtr = LLPathfindingLinksetTerrain(pContent),
        !.mTerrainMessagingState = kReceivedGood])

\* LinksetsResponder::handleTerrainLinksetsResult
handleTerrainLinksetsResult(self, pContent) ==
    LET received == [self EXCEPT
                        !.mTerrainLinksetPtr = LLPathfindingLinksetTerrain(pContent),
                        !.mTerrainMessagingState = kReceivedGood]
    IN  IF received.mObjectMessagingState # kWaiting
        THEN sendCallback(received)
        ELSE received

\* handleTerrainLinksetsError recording the error and leaving the callback
\* to the object branch.
handleTerrainLinksetsErrorLeavesCallback(self, pStatus) ==
    [self EXCEPT !.mTerrainMessagingState = kReceivedError]

\* LinksetsResponder::handleTerrainLinksetsError
handleTerrainLinksetsError(self, pStatus) ==
    LET received == [self EXCEPT !.mTerrainMessagingState = kReceivedError]
    IN  IF received.mObjectMessagingState # kWaiting
        THEN sendCallback(received)
        ELSE received

\* ObjectLinksetsResponder::ObjectLinksetsResponder
ObjectLinksetsResponder(pCapabilityURL, pLinksetsResponsderPtr) ==
    [class |-> "ObjectLinksetsResponder", mCapabilityURL |-> pCapabilityURL,
     mLinksetsResponsderPtr |-> pLinksetsResponsderPtr]

\* TerrainLinksetsResponder::TerrainLinksetsResponder
TerrainLinksetsResponder(pCapabilityURL, pLinksetsResponsderPtr) ==
    [class |-> "TerrainLinksetsResponder", mCapabilityURL |-> pCapabilityURL,
     mLinksetsResponsderPtr |-> pLinksetsResponsderPtr]

----------------------------------------------------------------------------
(* LLPathfindingManager: the linksets requests.                            *)

\* An LLSD that isUndefined().
LLSDUndefined == [undefined |-> TRUE]

\* What LLPathfindingLinksetList::encodeObjectFields may return: nothing to
\* send, or the fields of the objects to change.
ObjectPostDatas == {LLSDUndefined, [fields |-> "object"]}

\* What LLPathfindingLinksetList::encodeTerrainFields may return.
TerrainPostDatas == {LLSDUndefined, [fields |-> "terrain"]}

\* What a linksets request did: the status it returns, the LinksetsResponder it
\* constructed (NULL if none) and the HTTP operations it issued.
LinksetsCall(status, responder, requests) ==
    [status |-> status, responder |-> responder, requests |-> requests]

\* requestGetLinksets issuing the object GET for a region that grants the
\* object-linksets capability and not the terrain's, and returning NotEnabled.
requestGetLinksetsNotEnabledStillGets(agent, pLinksetsCallback, ptr) ==
    LET objectLinksetsURL == getObjectLinksetsURLForCurrentRegion(agent)
        terrainLinksetsURL == getTerrainLinksetsURLForCurrentRegion(agent)
        doRequestTerrain == isAllowViewTerrainProperties(agent)
        objectGet == HTTPRequest("get", objectLinksetsURL, LLSDUndefined,
                         ObjectLinksetsResponder(objectLinksetsURL, ptr))
        terrainGet == HTTPRequest("get", terrainLinksetsURL, LLSDUndefined,
                         TerrainLinksetsResponder(terrainLinksetsURL, ptr))
    IN  IF objectLinksetsURL = "" \/ terrainLinksetsURL = ""
        THEN LinksetsCall(kLinksetsRequestNotEnabled, NULL,
                 IF objectLinksetsURL # "" THEN <<objectGet>> ELSE <<>>)
        ELSE LinksetsCall(kLinksetsRequestStarted,
                 LinksetsResponder(pLinksetsCallback, TRUE, doRequestTerrain),
                 IF doRequestTerrain THEN <<objectGet, terrainGet>>
                                     ELSE <<objectGet>>)

\* requestGetLinksets asking for the object-linksets capability alone.
requestGetLinksetsObjectCapabilityOnly(agent, pLinksetsCallback, ptr) ==
    LET objectLinksetsURL == getObjectLinksetsURLForCurrentRegion(agent)
        terrainLinksetsURL == getTerrainLinksetsURLForCurrentRegion(agent)
        doRequestTerrain == isAllowViewTerrainProperties(agent)
        objectGet == HTTPRequest("get", objectLinksetsURL, LLSDUndefined,
                         ObjectLinksetsResponder(objectLinksetsURL, ptr))
        terrainGet == HTTPRequest("get", terrainLinksetsURL, LLSDUndefined,
                         TerrainLinksetsResponder(terrainLinksetsURL, ptr))
    IN  IF objectLinksetsURL = ""
        THEN LinksetsCall(kLinksetsRequestNotEnabled, NULL, <<>>)
        ELSE LinksetsCall(kLinksetsRequestStarted,
                 LinksetsResponder(pLinksetsCallback, TRUE, doRequestTerrain),
                 IF doRequestTerrain THEN <<objectGet, terrainGet>>
                                     ELSE <<objectGet>>)

\* LLPathfindingManager::requestGetLinksets; ptr is the address of the
\* LinksetsResponder it constructs.
requestGetLinksets(agent, pLinksetsCallback, ptr) ==
    LET objectLinksetsURL == getObjectLinksetsURLForCurrentRegion(agent)
        terrainLinksetsURL == getTerrainLinksetsURLForCurrentRegion(agent)
        doRequestTerrain == isAllowViewTerrainProperties(agent)
        objectGet == HTTPRequest("get", objectLinksetsURL, LLSDUndefined,
                         ObjectLinksetsResponder(objectLinksetsURL, ptr))
        terrainGet == HTTPRequest("get", terrainLinksetsURL, LLSDUndefined,
                         TerrainLinksetsResponder(terrainLinksetsURL, ptr))
    IN  IF objectLinksetsURL = "" \/ terrainLinksetsURL = ""
        THEN LinksetsCall(kLinksetsRequestNotEnabled, NULL, <<>>)
        ELSE LinksetsCall(kLinksetsRequestStarted,
                 LinksetsResponder(pLinksetsCallback, TRUE, doRequestTerrain),
                 IF doRequestTerrain THEN <<objectGet, terrainGet>>
                                     ELSE <<objectGet>>)

\* requestSetLinksets starting a join although there is nothing to send.
requestSetLinksetsAlwaysStarts(agent, objectFields, terrainFields, pLinksetsCallback, ptr) ==
    LET objectLinksetsURL == getObjectLinksetsURLForCurrentRegion(agent)
        terrainLinksetsURL == getTerrainLinksetsURLForCurrentRegion(agent)
        objectPostData == objectFields
        terrainPostData == IF isAllowViewTerrainProperties(agent)
                           THEN terrainFields ELSE LLSDUndefined
        objectPut == HTTPRequest("put", objectLinksetsURL, objectPostData,
                         ObjectLinksetsResponder(objectLinksetsURL, ptr))
        terrainPut == HTTPRequest("put", terrainLinksetsURL, terrainPostData,
                         TerrainLinksetsResponder(terrainLinksetsURL, ptr))
    IN  IF objectLinksetsURL = "" \/ terrainLinksetsURL = ""
        THEN LinksetsCall(kLinksetsRequestNotEnabled, NULL, <<>>)
        ELSE LinksetsCall(kLinksetsRequestStarted,
                 LinksetsResponder(pLinksetsCallback,
                     objectPostData # LLSDUndefined, terrainPostData # LLSDUndefined),
                 (IF objectPostData # LLSDUndefined THEN <<objectPut>> ELSE <<>>)
                 \o (IF terrainPostData # LLSDUndefined THEN <<terrainPut>> ELSE <<>>))

\* requestSetLinksets putting the object fields whether or not there are any.
requestSetLinksetsAlwaysPutsObject(agent, objectFields, terrainFields, pLinksetsCallback, ptr) ==
    LET objectLinksetsURL == getObjectLinksetsURLForCurrentRegion(agent)
        terrainLinksetsURL == getTerrainLinksetsURLForCurrentRegion(agent)
        objectPostData == objectFields
        terrainPostData == IF isAllowViewTerrainProperties(agent)
                           THEN terrainFields ELSE LLSDUndefined
        objectPut == HTTPRequest("put", objectLinksetsURL, objectPostData,
                         ObjectLinksetsResponder(objectLinksetsURL, ptr))
        terrainPut == HTTPRequest("put", terrainLinksetsURL, terrainPostData,
                         TerrainLinksetsResponder(terrainLinksetsURL, ptr))
    IN  IF objectLinksetsURL = "" \/ terrainLinksetsURL = ""
        THEN LinksetsCall(kLinksetsRequestNotEnabled, NULL, <<>>)
        ELSE IF objectPostData = LLSDUndefined /\ terrainPostData = LLSDUndefined
        THEN LinksetsCall(kLinksetsRequestCompleted, NULL, <<>>)
        ELSE LinksetsCall(kLinksetsRequestStarted,
                 LinksetsResponder(pLinksetsCallback,
                     objectPostData # LLSDUndefined, terrainPostData # LLSDUndefined),
                 <<objectPut>>
                 \o (IF terrainPostData # LLSDUndefined THEN <<terrainPut>> ELSE <<>>))

\* LLPathfindingManager::requestSetLinksets; objectFields and terrainFields are
\* what encodeObjectFields and encodeTerrainFields return for the list and the
\* values passed in.
requestSetLinksets(agent, objectFields, terrainFields, pLinksetsCallback, ptr) ==
    LET objectLinksetsURL == getObjectLinksetsURLForCurrentRegion(agent)
        terrainLinksetsURL == getTerrainLinksetsURLForCurrentRegion(agent)
        objectPostData == objectFields
        terrainPostData == IF isAllowViewTerrainProperties(agent)
                           THEN terrainFields ELSE LLSDUndefined
        objectPut == HTTPRequest("put", objectLinksetsURL, objectPostData,
                         ObjectLinksetsResponder(objectLinksetsURL, ptr))
        terrainPut == HTTPRequest("put", terrainLinksetsURL, terrainPostData,
                         TerrainLinksetsResponder(terrainLinksetsURL, ptr))
    IN  IF objectLinksetsURL = "" \/ terrainLinksetsURL = ""
        THEN LinksetsCall(kLinksetsRequestNotEnabled, NULL, <<>>)
        ELSE IF objectPostData = LLSDUndefined /\ terrainPostData = LLSDUndefined
        THEN LinksetsCall(kLinksetsRequestCompleted, NULL, <<>>)
        ELSE LinksetsCall(kLinksetsRequestStarted,
                 LinksetsResponder(pLinksetsCallback,
                     objectPostData # LLSDUndefined, terrainPostData # LLSDUndefined),
                 (IF objectPostData # LLSDUndefined THEN <<objectPut>> ELSE <<>>)
                 \o (IF terrainPostData # LLSDUndefined THEN <<terrainPut>> ELSE <<>>))

\* The state after a linksets request: the new LinksetsResponder, if one was
\* constructed, and the operations it issued.
LinksetsRequested(op, call) ==
    /\ ~crashed
    /\ call.responder # NULL => Len(linksetsResponders) < MaxResponders
    /\ linksetsResponders' =
           IF call.responder = NULL THEN linksetsResponders
           ELSE Append(linksetsResponders, call.responder)
    /\ linksetsReceived' =
           IF call.responder = NULL THEN linksetsReceived
           ELSE Append(linksetsReceived, [object |-> NULL, terrain |-> NULL])
    /\ http' = http (+) Issued(call.requests)
    /\ lastCall' = [op |-> op, status |-> call.status,
                    responder |-> IF call.responder = NULL THEN 0
                                  ELSE Len(linksetsResponders) + 1,
                    requests |-> call.requests]
    /\ UNCHANGED <<handlersRunning, navMeshVars, agentStateVars, crashed>>

\* The agents as far as the linksets requests read them.
LinksetsAgents ==
    AgentsReading({CAP_SERVICE_OBJECT_LINKSETS, CAP_SERVICE_TERRAIN_LINKSETS}, TRUE)

\* requestGetLinksets putting the agent state back to the last known non-error
\* one.
RequestGetLinksetsRestoresAgentState ==
    \E agent \in LinksetsAgents, pLinksetsCallback \in LinksetsCallbacks :
        LET call == requestGetLinksets(agent, pLinksetsCallback,
                                       Len(linksetsResponders) + 1)
        IN  /\ ~crashed
            /\ call.responder # NULL => Len(linksetsResponders) < MaxResponders
            /\ linksetsResponders' =
                   IF call.responder = NULL THEN linksetsResponders
                   ELSE Append(linksetsResponders, call.responder)
            /\ linksetsReceived' =
                   IF call.responder = NULL THEN linksetsReceived
                   ELSE Append(linksetsReceived, [object |-> NULL, terrain |-> NULL])
            /\ http' = http (+) Issued(call.requests)
            /\ lastCall' = [op |-> "requestGetLinksets", status |-> call.status,
                            responder |-> IF call.responder = NULL THEN 0
                                          ELSE Len(linksetsResponders) + 1,
                            requests |-> call.requests]
            /\ mAgentState' = mLastKnownNonErrorAgentState
            /\ UNCHANGED <<handlersRunning, navMeshVars, mAgentStateSignal,
                           mLastKnownNonErrorAgentState, crashed>>

RequestGetLinksets ==
    \E agent \in LinksetsAgents, pLinksetsCallback \in LinksetsCallbacks :
        LinksetsRequested("requestGetLinksets",
            requestGetLinksets(agent, pLinksetsCallback, Len(linksetsResponders) + 1))

RequestSetLinksets ==
    \E agent \in LinksetsAgents, pLinksetsCallback \in LinksetsCallbacks,
       objectFields \in ObjectPostDatas, terrainFields \in TerrainPostDatas :
        LinksetsRequested("requestSetLinksets",
            requestSetLinksets(agent, objectFields, terrainFields,
                               pLinksetsCallback, Len(linksetsResponders) + 1))

\* The HTTP operations in flight whose responder is of the given class.
InFlight(class) == {req \in BagToSet(http) : req.responder.class = class}

\* How many of them there are.
InFlightCount(class) == BagCardinality([req \in InFlight(class) |-> http[req]])

\* ObjectLinksetsResponder::result
ObjectLinksetsResult ==
    /\ ~crashed
    /\ \E req \in InFlight("ObjectLinksetsResponder"), pContent \in ObjectLinksetsContents :
        LET ptr == req.responder.mLinksetsResponsderPtr
        IN  /\ linksetsResponders' = [linksetsResponders EXCEPT
                   ![ptr] = handleObjectLinksetsResult(@, pContent)]
            /\ linksetsReceived' = [linksetsReceived EXCEPT ![ptr].object = pContent]
            /\ http' = http (-) SetToBag({req})
            /\ lastCall' = [op |-> "ObjectLinksetsResponder::result",
                            responder |-> ptr, content |-> pContent]
            /\ UNCHANGED <<handlersRunning, navMeshVars, agentStateVars, crashed>>

\* ObjectLinksetsResponder::error
ObjectLinksetsError ==
    /\ ~crashed
    /\ \E req \in InFlight("ObjectLinksetsResponder"), pStatus \in ErrorStatuses :
        LET ptr == req.responder.mLinksetsResponsderPtr
        IN  /\ linksetsResponders' = [linksetsResponders EXCEPT
                   ![ptr] = handleObjectLinksetsError(@, pStatus)]
            /\ http' = http (-) SetToBag({req})
            /\ lastCall' = [op |-> "ObjectLinksetsResponder::error",
                            responder |-> ptr, status |-> pStatus]
            /\ UNCHANGED <<linksetsReceived, handlersRunning, navMeshVars, agentStateVars, crashed>>

\* TerrainLinksetsResponder::result
TerrainLinksetsResult ==
    /\ ~crashed
    /\ \E req \in InFlight("TerrainLinksetsResponder"), pContent \in TerrainLinksetsContents :
        LET ptr == req.responder.mLinksetsResponsderPtr
        IN  /\ linksetsResponders' = [linksetsResponders EXCEPT
                   ![ptr] = handleTerrainLinksetsResult(@, pContent)]
            /\ linksetsReceived' = [linksetsReceived EXCEPT ![ptr].terrain = pContent]
            /\ http' = http (-) SetToBag({req})
            /\ lastCall' = [op |-> "TerrainLinksetsResponder::result",
                            responder |-> ptr, content |-> pContent]
            /\ UNCHANGED <<handlersRunning, navMeshVars, agentStateVars, crashed>>

\* TerrainLinksetsResponder::error
TerrainLinksetsError ==
    /\ ~crashed
    /\ \E req \in InFlight("TerrainLinksetsResponder"), pStatus \in ErrorStatuses :
        LET ptr == req.responder.mLinksetsResponsderPtr
        IN  /\ linksetsResponders' = [linksetsResponders EXCEPT
                   ![ptr] = handleTerrainLinksetsError(@, pStatus)]
            /\ http' = http (-) SetToBag({req})
            /\ lastCall' = [op |-> "TerrainLinksetsResponder::error",
                            responder |-> ptr, status |-> pStatus]
            /\ UNCHANGED <<linksetsReceived, handlersRunning, navMeshVars, agentStateVars, crashed>>

----------------------------------------------------------------------------
(* The agent state.                                                        *)

kAgentStateUnknown == "kAgentStateUnknown"
kAgentStateFrozen == "kAgentStateFrozen"
kAgentStateUnfrozen == "kAgentStateUnfrozen"
kAgentStateNotEnabled == "kAgentStateNotEnabled"
kAgentStateError == "kAgentStateError"

EAgentState ==
    {kAgentStateUnknown, kAgentStateFrozen, kAgentStateUnfrozen,
     kAgentStateNotEnabled, kAgentStateError}

ALTER_NAVMESH_OBJECTS_FIELD == "alter_navmesh_objects"
DEPRECATED_ALTER_NAVMESH_OBJECTS_FIELD == "alter_permanent_objects"

\* An LLSD holding a boolean.
LLSDBoolean(b) == [boolean |-> b]

\* LLSD::asBoolean: the boolean held; false for an undefined LLSD.
asBoolean(sd) == IF sd = LLSDUndefined THEN FALSE ELSE sd.boolean

\* LLSD::isBoolean
isBoolean(sd) == sd # LLSDUndefined

\* LLSD::has on a map; get() of a key the map lacks is an undefined LLSD.
has(pContent, field) == pContent[field] # LLSDUndefined

\* The bodies of an agent-state response: each field absent, true or false.
AgentStateContents ==
    [{ALTER_NAVMESH_OBJECTS_FIELD, DEPRECATED_ALTER_NAVMESH_OBJECTS_FIELD}
        -> {LLSDUndefined, LLSDBoolean(TRUE), LLSDBoolean(FALSE)}]

\* The callbacks a caller connects to mAgentStateSignal.
AgentStateCallbacks == {"agentStateCallback"}

\* The agents as far as the agent-state operations read them.
AgentStateAgents ==
    AgentsReading({CAP_SERVICE_RETRIEVE_NAVMESH, CAP_SERVICE_AGENT_STATE}, FALSE)

\* The manager as one of its member functions sees and leaves it: the fields of
\* the agent state machine, and what the function did so far, namely the slots
\* it invoked (signalled), the HTTP operations it issued (requests), how often
\* it ran setAgentState, whether one of its llasserts failed, and what it
\* returns (NULL for void).
ThisManager ==
    [mAgentStateSignal |-> mAgentStateSignal,
     mAgentState |-> mAgentState,
     mLastKnownNonErrorAgentState |-> mLastKnownNonErrorAgentState,
     signalled |-> <<>>,
     requests |-> <<>>,
     setAgentStateCalls |-> 0,
     llassertFailed |-> FALSE,
     returned |-> NULL]

\* llassert(condition): a failed assertion is reported and the function goes on.
llassert(this, condition) ==
    [this EXCEPT !.llassertFailed = @ \/ ~condition]

\* boost::signals2::signal::operator(): every connected slot is invoked once,
\* in the order of connection.
Signal(slots, pAgentState) ==
    [i \in DOMAIN slots |-> [slot |-> i, callback |-> slots[i], state |-> pAgentState]]

\* AgentStateResponder::AgentStateResponder
AgentStateResponder(pCapabilityURL, pRequestedAgentState) ==
    [class |-> "AgentStateResponder", mCapabilityURL |-> pCapabilityURL,
     mRequestedAgentState |-> pRequestedAgentState]

getRetrieveNavMeshURLForCurrentRegion(agent) ==
    getCapabilityURLForCurrentRegion(agent, CAP_SERVICE_RETRIEVE_NAVMESH)

getAgentStateURLForCurrentRegion(agent) ==
    getCapabilityURLForCurrentRegion(agent, CAP_SERVICE_AGENT_STATE)

isPathfindingEnabledForCurrentRegion(agent) ==
    getRetrieveNavMeshURLForCurrentRegion(agent) # ""

isValidAgentState(pAgentState) ==
    pAgentState = kAgentStateFrozen \/ pAgentState = kAgentStateUnfrozen

\* setAgentState keeping a state of Frozen or Unfrozen once one was set.
setAgentStateFirstAnswerWins(this, pAgentState) ==
    LET kept == IF this.mAgentState \in {kAgentStateFrozen, kAgentStateUnfrozen}
                THEN this.mAgentState ELSE pAgentState
    IN  [this EXCEPT
            !.mAgentState = kept,
            !.mLastKnownNonErrorAgentState =
                IF kept # kAgentStateError THEN kept ELSE @,
            !.signalled = @ \o Signal(this.mAgentStateSignal, kept),
            !.setAgentStateCalls = @ + 1]

\* setAgentState signalling only a state that differs from the one held.
setAgentStateSignalsChangesOnly(this, pAgentState) ==
    [this EXCEPT
        !.mAgentState = pAgentState,
        !.mLastKnownNonErrorAgentState =
            IF pAgentState # kAgentStateError THEN pAgentState ELSE @,
        !.signalled = IF pAgentState # this.mAgentState
                      THEN @ \o Signal(this.mAgentStateSignal, pAgentState)
                      ELSE @,
        !.setAgentStateCalls = @ + 1]

\* setAgentState recording every state, Error too, as the last known one.
setAgentStateRecordsError(this, pAgentState) ==
    [this EXCEPT
        !.mAgentState = pAgentState,
        !.mLastKnownNonErrorAgentState = pAgentState,
        !.signalled = @ \o Signal(this.mAgentStateSignal, pAgentState),
        !.setAgentStateCalls = @ + 1]

\* LLPathfindingManager::setAgentState
setAgentState(this, pAgentState) ==
    [this EXCEPT
        !.mAgentState = pAgentState,
        !.mLastKnownNonErrorAgentState =
            IF pAgentState # kAgentStateError THEN pAgentState ELSE @,
        !.signalled = @ \o Signal(this.mAgentStateSignal, pAgentState),
        !.setAgentStateCalls = @ + 1]

\* LLPathfindingManager::registerAgentStateListener
registerAgentStateListener(this, pAgentStateCallback) ==
    [this EXCEPT
        !.mAgentStateSignal = Append(@, pAgentStateCallback),
        !.returned = Len(this.mAgentStateSignal) + 1]

\* LLPathfindingManager::requestGetAgentState
requestGetAgentState(this, agent) ==
    LET agentStateURL == getAgentStateURLForCurrentRegion(agent)
    IN  IF agentStateURL = ""
        THEN setAgentState(this, kAgentStateNotEnabled)
        ELSE [this EXCEPT !.requests = Append(@,
                 HTTPRequest("get", agentStateURL, LLSDUndefined,
                     AgentStateResponder(agentStateURL, kAgentStateUnknown)))]

\* getAgentState keeping a state that is Frozen or Unfrozen without looking at
\* the region.
getAgentStateKeepsValidState(this, agent) ==
    LET after ==
            IF isValidAgentState(this.mAgentState)
            THEN this
            ELSE IF ~isPathfindingEnabledForCurrentRegion(agent)
            THEN setAgentState(this, kAgentStateNotEnabled)
            ELSE requestGetAgentState(this, agent)
    IN  [after EXCEPT !.returned = after.mAgentState]

\* getAgentState asking the simulator whatever state it holds.
getAgentStateAlwaysRefreshes(this, agent) ==
    LET after ==
            IF ~isPathfindingEnabledForCurrentRegion(agent)
            THEN setAgentState(this, kAgentStateNotEnabled)
            ELSE requestGetAgentState(this, agent)
    IN  [after EXCEPT !.returned = after.mAgentState]

\* LLPathfindingManager::getAgentState
getAgentState(this, agent) ==
    LET after ==
            IF ~isPathfindingEnabledForCurrentRegion(agent)
            THEN setAgentState(this, kAgentStateNotEnabled)
            ELSE IF ~isValidAgentState(this.mAgentState)
            THEN requestGetAgentState(this, agent)
            ELSE this
    IN  [after EXCEPT !.returned = after.mAgentState]

\* LLPathfindingManager::getLastKnownNonErrorAgentState
getLastKnownNonErrorAgentState(this) ==
    [this EXCEPT !.returned = this.mLastKnownNonErrorAgentState]

\* isAllowAlterPermanent reading mAgentState without running getAgentState.
isAllowAlterPermanentReadsField(this, agent) ==
    [this EXCEPT !.returned =
        ~isPathfindingEnabledForCurrentRegion(agent)
        \/ this.mAgentState = kAgentStateUnfrozen]

\* LLPathfindingManager::isAllowAlterPermanent
isAllowAlterPermanent(this, agent) ==
    IF ~isPathfindingEnabledForCurrentRegion(agent)
    THEN [this EXCEPT !.returned = TRUE]
    ELSE LET after == getAgentState(this, agent)
         IN  [after EXCEPT !.returned = (after.returned = kAgentStateUnfrozen)]

\* requestSetAgentState posting without a look at the capability URL.
requestSetAgentStateAlwaysPosts(this, agent, pRequestedAgentState) ==
    LET checked == llassert(this, isValidAgentState(pRequestedAgentState))
        agentStateURL == getAgentStateURLForCurrentRegion(agent)
        request ==
            (ALTER_NAVMESH_OBJECTS_FIELD :>
                LLSDBoolean(pRequestedAgentState = kAgentStateUnfrozen))
            @@ (DEPRECATED_ALTER_NAVMESH_OBJECTS_FIELD :>
                LLSDBoolean(pRequestedAgentState = kAgentStateUnfrozen))
    IN  [checked EXCEPT !.requests = Append(@,
            HTTPRequest("post", agentStateURL, request,
                AgentStateResponder(agentStateURL, pRequestedAgentState)))]

\* requestSetAgentState constructing its responder with the state held instead
\* of the state requested.
requestSetAgentStateTagsHeldState(this, agent, pRequestedAgentState) ==
    LET checked == llassert(this, isValidAgentState(pRequestedAgentState))
        agentStateURL == getAgentStateURLForCurrentRegion(agent)
        request ==
            (ALTER_NAVMESH_OBJECTS_FIELD :>
                LLSDBoolean(pRequestedAgentState = kAgentStateUnfrozen))
            @@ (DEPRECATED_ALTER_NAVMESH_OBJECTS_FIELD :>
                LLSDBoolean(pRequestedAgentState = kAgentStateUnfrozen))
    IN  IF agentStateURL = ""
        THEN setAgentState(checked, kAgentStateNotEnabled)
        ELSE [checked EXCEPT !.requests = Append(@,
                 HTTPRequest("post", agentStateURL, request,
                     AgentStateResponder(agentStateURL, this.mAgentState)))]

\* LLPathfindingManager::requestSetAgentState
requestSetAgentState(this, agent, pRequestedAgentState) ==
    LET checked == llassert(this, isValidAgentState(pRequestedAgentState))
        agentStateURL == getAgentStateURLForCurrentRegion(agent)
        request ==
            (ALTER_NAVMESH_OBJECTS_FIELD :>
                LLSDBoolean(pRequestedAgentState = kAgentStateUnfrozen))
            @@ (DEPRECATED_ALTER_NAVMESH_OBJECTS_FIELD :>
                LLSDBoolean(pRequestedAgentState = kAgentStateUnfrozen))
    IN  IF agentStateURL = ""
        THEN setAgentState(checked, kAgentStateNotEnabled)
        ELSE [checked EXCEPT !.requests = Append(@,
                 HTTPRequest("post", agentStateURL, request,
                     AgentStateResponder(agentStateURL, pRequestedAgentState)))]

\* handleAgentStateResult taking the server's answer whatever was requested.
handleAgentStateResultUnverified(this, pContent, pRequestedAgentState) ==
    setAgentState(this,
        IF has(pContent, ALTER_NAVMESH_OBJECTS_FIELD)
        THEN (IF asBoolean(pContent[ALTER_NAVMESH_OBJECTS_FIELD])
              THEN kAgentStateUnfrozen ELSE kAgentStateFrozen)
        ELSE (IF asBoolean(pContent[DEPRECATED_ALTER_NAVMESH_OBJECTS_FIELD])
              THEN kAgentStateUnfrozen ELSE kAgentStateFrozen))

\* handleAgentStateResult comparing the answer with whatever state the
\* responder holds, valid or not.
handleAgentStateResultVerifiesEveryTag(this, pContent, pRequestedAgentState) ==
    LET decoded ==
            IF has(pContent, ALTER_NAVMESH_OBJECTS_FIELD)
            THEN [this |-> llassert(this,
                               isBoolean(pContent[ALTER_NAVMESH_OBJECTS_FIELD])),
                  agentState |->
                      IF asBoolean(pContent[ALTER_NAVMESH_OBJECTS_FIELD])
                      THEN kAgentStateUnfrozen ELSE kAgentStateFrozen]
            ELSE [this |-> llassert(
                               llassert(this,
                                   has(pContent, DEPRECATED_ALTER_NAVMESH_OBJECTS_FIELD)),
                               isBoolean(pContent[DEPRECATED_ALTER_NAVMESH_OBJECTS_FIELD])),
                  agentState |->
                      IF asBoolean(pContent[DEPRECATED_ALTER_NAVMESH_OBJECTS_FIELD])
                      THEN kAgentStateUnfrozen ELSE kAgentStateFrozen]
    IN  IF decoded.agentState # pRequestedAgentState
        THEN setAgentState(llassert(decoded.this, FALSE), kAgentStateError)
        ELSE setAgentState(decoded.this, decoded.agentState)

\* handleAgentStateResult reading the deprecated field whenever it is there.
handleAgentStateResultPrefersDeprecated(this, pContent, pRequestedAgentState) ==
    LET decoded ==
            IF ~has(pContent, DEPRECATED_ALTER_NAVMESH_OBJECTS_FIELD)
            THEN [this |-> llassert(
                               llassert(this,
                                   has(pContent, ALTER_NAVMESH_OBJECTS_FIELD)),
                               isBoolean(pContent[ALTER_NAVMESH_OBJECTS_FIELD])),
                  agentState |->
                      IF asBoolean(pContent[ALTER_NAVMESH_OBJECTS_FIELD])
                      THEN kAgentStateUnfrozen ELSE kAgentStateFrozen]
            ELSE [this |-> llassert(this,
                               isBoolean(pContent[DEPRECATED_ALTER_NAVMESH_OBJECTS_FIELD])),
                  agentState |->
                      IF asBoolean(pContent[DEPRECATED_ALTER_NAVMESH_OBJECTS_FIELD])
                      THEN kAgentStateUnfrozen ELSE kAgentStateFrozen]
    IN  IF isValidAgentState(pRequestedAgentState)
           /\ decoded.agentState # pRequestedAgentState
        THEN setAgentState(llassert(decoded.this, FALSE), kAgentStateError)
        ELSE setAgentState(decoded.this, decoded.agentState)

\* LLPathfindingManager::handleAgentStateResult
handleAgentStateResult(this, pContent, pRequestedAgentState) ==
    LET decoded ==
            IF has(pContent, ALTER_NAVMESH_OBJECTS_FIELD)
            THEN [this |-> llassert(this,
                               isBoolean(pContent[ALTER_NAVMESH_OBJECTS_FIELD])),
                  agentState |->
                      IF asBoolean(pContent[ALTER_NAVMESH_OBJECTS_FIELD])
                      THEN kAgentStateUnfrozen ELSE kAgentStateFrozen]
            ELSE [this |-> llassert(
                               llassert(this,
                                   has(pContent, DEPRECATED_ALTER_NAVMESH_OBJECTS_FIELD)),
                               isBoolean(pContent[DEPRECATED_ALTER_NAVMESH_OBJECTS_FIELD])),
                  agentState |->
                      IF asBoolean(pContent[DEPRECATED_ALTER_NAVMESH_OBJECTS_FIELD])
                      THEN kAgentStateUnfrozen ELSE kAgentStateFrozen]
    IN  IF isValidAgentState(pRequestedAgentState)
           /\ decoded.agentState # pRequestedAgentState
        THEN setAgentState(llassert(decoded.this, FALSE), kAgentStateError)
        ELSE setAgentState(decoded.this, decoded.agentState)

\* handleAgentStateError asking again after the failure.
handleAgentStateErrorRetries(this, pStatus, pURL) ==
    LET failed == setAgentState(this, kAgentStateError)
    IN  [failed EXCEPT !.requests = Append(@,
            HTTPRequest("get", pURL, LLSDUndefined,
                AgentStateResponder(pURL, kAgentStateUnknown)))]

\* handleAgentStateError signalling the state held instead of Error.
handleAgentStateErrorKeepsState(this, pStatus, pURL) ==
    setAgentState(this, this.mAgentState)

\* handleAgentStateError forgetting the state, so that the next getAgentState
\* asks the simulator again.
handleAgentStateErrorForgets(this, pStatus, pURL) ==
    setAgentState(this, kAgentStateUnknown)

\* LLPathfindingManager::handleAgentStateError
handleAgentStateError(this, pStatus, pURL) ==
    setAgentState(this, kAgentStateError)

\* The state after a member function of the agent state machine has run: the
\* fields as it left them, the operations it issued added to those in flight
\* and the operation it answered, if any, taken from them.
AgentStateDone(op, args, answered, this) ==
    /\ ~crashed
    /\ this.requests # <<>> => InFlightCount("AgentStateResponder") < MaxAgentRequests
    /\ mAgentStateSignal' = this.mAgentStateSignal
    /\ mAgentState' = this.mAgentState
    /\ mLastKnownNonErrorAgentState' = this.mLastKnownNonErrorAgentState
    /\ http' = (http (-) answered) (+) Issued(this.requests)
    /\ lastCall' = [op |-> op, args |-> args, was |-> mAgentState,
                    signalled |-> this.signalled, requests |-> this.requests,
                    setAgentStateCalls |-> this.setAgentStateCalls,
                    llassertFailed |-> this.llassertFailed,
                    returned |-> this.returned]

RegisterAgentStateListener ==
    /\ Len(mAgentStateSignal) < MaxListeners
    /\ \E pAgentStateCallback \in AgentStateCallbacks :
           AgentStateDone("registerAgentStateListener", <<pAgentStateCallback>>, EmptyBag,
               registerAgentStateListener(ThisManager, pAgentStateCallback))
    /\ UNCHANGED <<navMeshVars, linksetsVars, crashed>>

GetAgentState ==
    /\ \E agent \in AgentStateAgents :
           AgentStateDone("getAgentState", <<>>, EmptyBag, getAgentState(ThisManager, agent))
    /\ UNCHANGED <<navMeshVars, linksetsVars, crashed>>

GetLastKnownNonErrorAgentState ==
    /\ AgentStateDone("getLastKnownNonErrorAgentState", <<>>, EmptyBag,
           getLastKnownNonErrorAgentState(ThisManager))
    /\ UNCHANGED <<navMeshVars, linksetsVars, crashed>>

IsAllowAlterPermanent ==
    /\ \E agent \in AgentStateAgents :
           AgentStateDone("isAllowAlterPermanent", <<>>, EmptyBag,
               isAllowAlterPermanent(ThisManager, agent))
    /\ UNCHANGED <<navMeshVars, linksetsVars, crashed>>

RequestSetAgentState ==
    /\ \E agent \in AgentStateAgents, pRequestedAgentState \in EAgentState :
           AgentStateDone("requestSetAgentState", <<pRequestedAgentState>>, EmptyBag,
               requestSetAgentState(ThisManager, agent, pRequestedAgentState))
    /\ UNCHANGED <<navMeshVars, linksetsVars, crashed>>

\* AgentStateResponder::result
AgentStateResult ==
    /\ \E req \in InFlight("AgentStateResponder"), pContent \in AgentStateContents :
           AgentStateDone("AgentStateResponder::result",
               <<pContent, req.responder.mRequestedAgentState>>, SetToBag({req}),
               handleAgentStateResult(ThisManager, pContent,
                   req.responder.mRequestedAgentState))
    /\ UNCHANGED <<navMeshVars, linksetsVars, crashed>>

\* AgentStateResponder::error
AgentStateError ==
    /\ \E req \in InFlight("AgentStateResponder"), pStatus \in ErrorStatuses :
           AgentStateDone("AgentStateResponder::error",
               <<pStatus, req.responder.mRequestedAgentState>>, SetToBag({req}),
               handleAgentStateError(ThisManager, pStatus,
                   req.responder.mCapabilityURL))
    /\ UNCHANGED <<navMeshVars, linksetsVars, crashed>>

----------------------------------------------------------------------------
(* U32, the type of a navmesh version: 32 bits, held as two halves of 16   *)
(* bits, the whole being hi * 65536 + lo.                                  *)

U32HalfModulus == 65536

\* The U32 of a number below 65536.
U32(n) == [hi |-> 0, lo |-> n]

\* The largest U32, 4294967295.
U32Max == [hi |-> U32HalfModulus - 1, lo |-> U32HalfModulus - 1]

\* ++ on a U32: one more, and 0 after the largest value.
U32Increment(v) ==
    IF v.lo + 1 < U32HalfModulus
    THEN [v EXCEPT !.lo = @ + 1]
    ELSE [hi |-> (v.hi + 1) % U32HalfModulus, lo |-> 0]

\* < on U32.
U32Less(v, w) == v.hi < w.hi \/ (v.hi = w.hi /\ v.lo < w.lo)

----------------------------------------------------------------------------
(* LLPathfindingNavMesh: the navmesh entry of one region.                  *)

\* The lifecycle states of an entry.
kNavMeshNoData == "NoData"
kNavMeshRequestStarted == "RequestStarted"
kNavMeshRequestCompleted == "RequestCompleted"
kNavMeshNotEnabled == "NotEnabled"
kNavMeshError == "Error"

\* The callbacks a caller registers with an entry.
NavMeshCallbacks == {"navMeshCallback"}

\* The bodies of a successful navmesh response.
NavMeshContents == {[navmesh_data |-> "navmesh"]}

\* LLPathfindingNavMesh::LLPathfindingNavMesh: an entry without data.
LLPathfindingNavMesh(pRegionUUID) ==
    [mRegionUUID |-> pRegionUUID,
     mNavMeshRequestStatus |-> kNavMeshNoData,
     mNavMeshVersion |-> U32(0),
     mNavMeshSignal |-> <<>>]

\* What a handler of an entry did: the entry as it leaves it and the slots it
\* invoked, each with what it was told.
NavMeshHandled(self, notified) == [self |-> self, notified |-> notified]

\* The entry's signal invoked: every connected slot once, in the order of
\* connection, with the entry's state and version and the details given (the
\* payload of a result, the status and URL of an error).
NavMeshSignal(self, details) ==
    [i \in DOMAIN self.mNavMeshSignal |->
        [region |-> self.mRegionUUID, slot |-> i, callback |-> self.mNavMeshSignal[i],
         status |-> self.mNavMeshRequestStatus, version |-> self.mNavMeshVersion,
         details |-> details]]

\* LLPathfindingNavMesh::hasNavMeshVersion: the entry holds retrieved data, of
\* that version.
hasNavMeshVersion(self, pNavMeshVersion) ==
    /\ self.mNavMeshRequestStatus = kNavMeshRequestCompleted
    /\ self.mNavMeshVersion = pNavMeshVersion

\* LLPathfindingNavMesh::registerNavMeshListener
registerNavMeshListener(self, pNavMeshCallback) ==
    [self EXCEPT !.mNavMeshSignal = Append(@, pNavMeshCallback)]

\* LLPathfindingNavMesh::handleRefresh
handleRefresh(self) ==
    NavMeshHandled(self, NavMeshSignal(self, <<>>))

\* LLPathfindingNavMesh::handleNavMeshStart
handleNavMeshStart(self, pNavMeshVersion) ==
    LET started == [self EXCEPT !.mNavMeshRequestStatus = kNavMeshRequestStarted,
                                !.mNavMeshVersion = pNavMeshVersion]
    IN  NavMeshHandled(started, NavMeshSignal(started, <<>>))

\* LLPathfindingNavMesh::handleNavMeshResult
handleNavMeshResult(self, pContent, pNavMeshVersion) ==
    LET completed == [self EXCEPT !.mNavMeshRequestStatus = kNavMeshRequestCompleted,
                                  !.mNavMeshVersion = pNavMeshVersion]
    IN  NavMeshHandled(completed, NavMeshSignal(completed, <<pContent>>))

\* LLPathfindingNavMesh::handleNavMeshError
handleNavMeshError(self, pStatus, pURL, pNavMeshVersion) ==
    LET failed == [self EXCEPT !.mNavMeshRequestStatus = kNavMeshError]
    IN  NavMeshHandled(failed, NavMeshSignal(failed, <<pStatus, pURL>>))

\* LLPathfindingNavMesh::handleNavMeshNotEnabled
handleNavMeshNotEnabled(self) ==
    LET disabled == [self EXCEPT !.mNavMeshRequestStatus = kNavMeshNotEnabled]
    IN  NavMeshHandled(disabled, NavMeshSignal(disabled, <<>>))

\* LLPathfindingNavMesh::handleNavMeshNewVersion: the entry is left as it is;
\* it stops being current because the manager's counter has moved on.
handleNavMeshNewVersion(self, pNavMeshVersion) ==
    NavMeshHandled(self, <<>>)

----------------------------------------------------------------------------
(* LLPathfindingManager: the navmesh entries and the version counter.      *)

\* The regions as far as the navmesh operations read them.
NavMeshRegions ==
    {pRegion \in ViewerRegions :
        /\ pRegion.mCapabilities \subseteq {CAP_SERVICE_RETRIEVE_NAVMESH}
        /\ ~pRegion.canManageEstate}
    \cup {NULL}

\* The regions as far as an operation reads no more of them than their id.
NavMeshRegionsById ==
    {pRegion \in NavMeshRegions : pRegion # NULL => pRegion.mCapabilities = {}}

\* NavMeshResponder::NavMeshResponder; the entry is named by its region's id.
NavMeshResponder(pCapabilityURL, pNavMeshVersion, pNavMeshPtr) ==
    [class |-> "NavMeshResponder", mCapabilityURL |-> pCapabilityURL,
     mNavMeshVersion |-> pNavMeshVersion, mNavMeshPtr |-> pNavMeshPtr]

getRetrieveNavMeshURLForRegion(pRegion) ==
    getCapabilityURLForRegion(pRegion, CAP_SERVICE_RETRIEVE_NAVMESH)

\* The manager as one of its navmesh member functions sees and leaves it: the
\* map and the counter, and what the function did so far, namely the slots it
\* invoked (notified) and the HTTP operations it issued (requests).
ThisNavMeshManager ==
    [mNavMeshMap |-> mNavMeshMap,
     mNavMeshVersionXXX |-> mNavMeshVersionXXX,
     notified |-> <<>>,
     requests |-> <<>>]

\* getNavMeshForRegion(const LLUUID&) putting a new entry in the map at every
\* lookup.
getNavMeshForRegionUUIDAlwaysCreates(this, pRegionUUID) ==
    IF pRegionUUID \notin DOMAIN this.mNavMeshMap
    THEN [this EXCEPT !.mNavMeshMap =
             (pRegionUUID :> LLPathfindingNavMesh(pRegionUUID)) @@ @]
    ELSE [this EXCEPT !.mNavMeshMap[pRegionUUID] = LLPathfindingNavMesh(pRegionUUID)]

\* LLPathfindingManager::getNavMeshForRegion(const LLUUID&): the manager with
\* the entry of the region in its map; the entry is named by the region's id.
getNavMeshForRegionUUID(this, pRegionUUID) ==
    IF pRegionUUID \notin DOMAIN this.mNavMeshMap
    THEN [this EXCEPT !.mNavMeshMap =
             (pRegionUUID :> LLPathfindingNavMesh(pRegionUUID)) @@ @]
    ELSE this

\* The id LLPathfindingManager::getNavMeshForRegion(LLViewerRegion*) looks up.
RegionUUID(pRegion) ==
    IF pRegion # NULL THEN pRegion.mRegionID ELSE NullRegionId

\* LLPathfindingManager::getNavMeshForRegion(LLViewerRegion*)
getNavMeshForRegion(this, pRegion) ==
    getNavMeshForRegionUUID(this, RegionUUID(pRegion))

\* The manager after a handler of the entry navMeshPtr has run.
NavMeshEntryHandled(this, navMeshPtr, handled) ==
    [this EXCEPT !.mNavMeshMap[navMeshPtr] = handled.self,
                 !.notified = @ \o handled.notified]

\* LLPathfindingManager::registerNavMeshListenerForRegion
registerNavMeshListenerForRegion(this, pRegion, pNavMeshCallback) ==
    LET found == getNavMeshForRegion(this, pRegion)
        navMeshPtr == RegionUUID(pRegion)
    IN  [found EXCEPT !.mNavMeshMap[navMeshPtr] =
            registerNavMeshListener(@, pNavMeshCallback)]

\* requestGetNavMeshForRegion constructing its responder with the version the
\* entry held before the call instead of the manager's.
requestGetNavMeshForRegionTagsEntryVersion(this, pRegion) ==
    LET found == getNavMeshForRegion(this, pRegion)
        navMeshPtr == RegionUUID(pRegion)
        navMesh == found.mNavMeshMap[navMeshPtr]
        navMeshURL == getRetrieveNavMeshURLForRegion(pRegion)
    IN  IF hasNavMeshVersion(navMesh, found.mNavMeshVersionXXX)
        THEN NavMeshEntryHandled(found, navMeshPtr, handleRefresh(navMesh))
        ELSE IF pRegion = NULL
        THEN NavMeshEntryHandled(found, navMeshPtr, handleNavMeshNotEnabled(navMesh))
        ELSE IF navMeshURL = ""
        THEN NavMeshEntryHandled(found, navMeshPtr, handleNavMeshNotEnabled(navMesh))
        ELSE [NavMeshEntryHandled(found, navMeshPtr,
                  handleNavMeshStart(navMesh, found.mNavMeshVersionXXX))
              EXCEPT !.requests = Append(@,
                  HTTPRequest("post", navMeshURL, LLSDUndefined,
                      NavMeshResponder(navMeshURL, navMesh.mNavMeshVersion,
                                       navMeshPtr)))]

\* requestGetNavMeshForRegion giving up on an entry once it is NotEnabled.
requestGetNavMeshForRegionStaysNotEnabled(this, pRegion) ==
    LET found == getNavMeshForRegion(this, pRegion)
        navMeshPtr == RegionUUID(pRegion)
        navMesh == found.mNavMeshMap[navMeshPtr]
        navMeshURL == getRetrieveNavMeshURLForRegion(pRegion)
    IN  IF hasNavMeshVersion(navMesh, found.mNavMeshVersionXXX)
        THEN NavMeshEntryHandled(found, navMeshPtr, handleRefresh(navMesh))
        ELSE IF pRegion = NULL
        THEN NavMeshEntryHandled(found, navMeshPtr, handleNavMeshNotEnabled(navMesh))
        ELSE IF navMeshURL = "" \/ navMesh.mNavMeshRequestStatus = kNavMeshNotEnabled
        THEN NavMeshEntryHandled(found, navMeshPtr, handleNavMeshNotEnabled(navMesh))
        ELSE [NavMeshEntryHandled(found, navMeshPtr,
                  handleNavMeshStart(navMesh, found.mNavMeshVersionXXX))
              EXCEPT !.requests = Append(@,
                  HTTPRequest("post", navMeshURL, LLSDUndefined,
                      NavMeshResponder(navMeshURL, found.mNavMeshVersionXXX,
                                       navMeshPtr)))]

\* requestGetNavMeshForRegion asking the entry for the version it holds
\* instead of the manager's: it refreshes whatever data was retrieved.
requestGetNavMeshForRegionAnyVersion(this, pRegion) ==
    LET found == getNavMeshForRegion(this, pRegion)
        navMeshPtr == RegionUUID(pRegion)
        navMesh == found.mNavMeshMap[navMeshPtr]
        navMeshURL == getRetrieveNavMeshURLForRegion(pRegion)
    IN  IF hasNavMeshVersion(navMesh, navMesh.mNavMeshVersion)
        THEN NavMeshEntryHandled(found, navMeshPtr, handleRefresh(navMesh))
        ELSE IF pRegion = NULL
        THEN NavMeshEntryHandled(found, navMeshPtr, handleNavMeshNotEnabled(navMesh))
        ELSE IF navMeshURL = ""
        THEN NavMeshEntryHandled(found, navMeshPtr, handleNavMeshNotEnabled(navMesh))
        ELSE [NavMeshEntryHandled(found, navMeshPtr,
                  handleNavMeshStart(navMesh, found.mNavMeshVersionXXX))
              EXCEPT !.requests = Append(@,
                  HTTPRequest("post", navMeshURL, LLSDUndefined,
                      NavMeshResponder(navMeshURL, found.mNavMeshVersionXXX,
                                       navMeshPtr)))]

\* requestGetNavMeshForRegion without the test for current data: it fetches
\* whenever the region has the capability.
requestGetNavMeshForRegionAlwaysFetches(this, pRegion) ==
    LET found == getNavMeshForRegion(this, pRegion)
        navMeshPtr == RegionUUID(pRegion)
        navMesh == found.mNavMeshMap[navMeshPtr]
        navMeshURL == getRetrieveNavMeshURLForRegion(pRegion)
    IN  IF pRegion = NULL
        THEN NavMeshEntryHandled(found, navMeshPtr, handleNavMeshNotEnabled(navMesh))
        ELSE IF navMeshURL = ""
        THEN NavMeshEntryHandled(found, navMeshPtr, handleNavMeshNotEnabled(navMesh))
        ELSE [NavMeshEntryHandled(found, navMeshPtr,
                  handleNavMeshStart(navMesh, found.mNavMeshVersionXXX))
              EXCEPT !.requests = Append(@,
                  HTTPRequest("post", navMeshURL, LLSDUndefined,
                      NavMeshResponder(navMeshURL, found.mNavMeshVersionXXX,
                                       navMeshPtr)))]

\* LLPathfindingManager::requestGetNavMeshForRegion
requestGetNavMeshForRegion(this, pRegion) ==
    LET found == getNavMeshForRegion(this, pRegion)
        navMeshPtr == RegionUUID(pRegion)
        navMesh == found.mNavMeshMap[navMeshPtr]
        navMeshURL == getRetrieveNavMeshURLForRegion(pRegion)
    IN  IF hasNavMeshVersion(navMesh, found.mNavMeshVersionXXX)
        THEN NavMeshEntryHandled(found, navMeshPtr, handleRefresh(navMesh))
        ELSE IF pRegion = NULL
        THEN NavMeshEntryHandled(found, navMeshPtr, handleNavMeshNotEnabled(navMesh))
        ELSE IF navMeshURL = ""
        THEN NavMeshEntryHandled(found, navMeshPtr, handleNavMeshNotEnabled(navMesh))
        ELSE [NavMeshEntryHandled(found, navMeshPtr,
                  handleNavMeshStart(navMesh, found.mNavMeshVersionXXX))
              EXCEPT !.requests = Append(@,
                  HTTPRequest("post", navMeshURL, LLSDUndefined,
                      NavMeshResponder(navMeshURL, found.mNavMeshVersionXXX,
                                       navMeshPtr)))]

\* handleNavMeshUpdate fetching the navmesh of the region named at once.
handleNavMeshUpdateRefetches(this, pRegionUUID, pNavMeshVersion) ==
    LET found == getNavMeshForRegionUUID(this, pRegionUUID)
        incremented == [found EXCEPT !.mNavMeshVersionXXX = U32Increment(@)]
        navMeshURL == "cap://" \o CAP_SERVICE_RETRIEVE_NAVMESH
    IN  [NavMeshEntryHandled(incremented, pRegionUUID,
             handleNavMeshStart(incremented.mNavMeshMap[pRegionUUID],
                                incremented.mNavMeshVersionXXX))
         EXCEPT !.requests = Append(@,
             HTTPRequest("post", navMeshURL, LLSDUndefined,
                 NavMeshResponder(navMeshURL, incremented.mNavMeshVersionXXX,
                                  pRegionUUID)))]

\* LLPathfindingManager::handleNavMeshUpdate
handleNavMeshUpdate(this, pRegionUUID, pNavMeshVersion) ==
    LET found == getNavMeshForRegionUUID(this, pRegionUUID)
        incremented == [found EXCEPT !.mNavMeshVersionXXX = U32Increment(@)]
    IN  NavMeshEntryHandled(incremented, pRegionUUID,
            handleNavMeshNewVersion(incremented.mNavMeshMap[pRegionUUID],
                                    incremented.mNavMeshVersionXXX))

\* The state after a navmesh member function has run: the fields as it left
\* them, the operations it issued added to those in flight and the operation
\* it answered, if any, taken from them.
NavMeshDone(op, args, answered, this) ==
    /\ ~crashed
    /\ this.requests # <<>> => InFlightCount("NavMeshResponder") < MaxNavMeshRequests
    /\ mNavMeshMap' = this.mNavMeshMap
    /\ mNavMeshVersionXXX' = this.mNavMeshVersionXXX
    /\ http' = (http (-) answered) (+) Issued(this.requests)
    /\ lastCall' = [op |-> op, args |-> args, notified |-> this.notified,
                    requests |-> this.requests]

\* The slots connected to the signals of all entries.
NavMeshListeners ==
    LET RECURSIVE Sum(_)
        Sum(ids) == IF ids = {} THEN 0
                    ELSE LET id == CHOOSE id \in ids : TRUE
                         IN  Len(mNavMeshMap[id].mNavMeshSignal) + Sum(ids \ {id})
    IN  Sum(DOMAIN mNavMeshMap)

RegisterNavMeshListenerForRegion ==
    /\ NavMeshListeners < MaxNavMeshListeners
    /\ \E pRegion \in NavMeshRegionsById, pNavMeshCallback \in NavMeshCallbacks :
           NavMeshDone("registerNavMeshListenerForRegion", <<RegionUUID(pRegion)>>,
               EmptyBag,
               registerNavMeshListenerForRegion(ThisNavMeshManager, pRegion,
                                                pNavMeshCallback))
    /\ UNCHANGED <<agentStateVars, linksetsVars, crashed>>

RequestGetNavMeshForRegion ==
    /\ \E pRegion \in NavMeshRegions :
           NavMeshDone("requestGetNavMeshForRegion", <<RegionUUID(pRegion)>>,
               EmptyBag, requestGetNavMeshForRegion(ThisNavMeshManager, pRegion))
    /\ UNCHANGED <<agentStateVars, linksetsVars, crashed>>

\* LLNavMeshSimStateChangeNode::post.  Without a current region,
\* region->getRegionID() reads through a null pointer: the viewer crashes, or
\* goes on with whatever id the read yields.
NavMeshSimStateChangePost ==
    /\ \/ U32Less(mNavMeshVersionXXX, U32(MaxNavMeshVersion))
       \/ mNavMeshVersionXXX = U32Max
    /\ \E region \in NavMeshRegionsById :
           \/ /\ region # NULL
              /\ NavMeshDone("LLNavMeshSimStateChangeNode::post",
                     <<region>>, EmptyBag,
                     handleNavMeshUpdate(ThisNavMeshManager, region.mRegionID, U32(0)))
              /\ UNCHANGED crashed
           \/ /\ region = NULL
              /\ \E garbage \in RegionIds \cup {NullRegionId} :
                     NavMeshDone("LLNavMeshSimStateChangeNode::post",
                         <<NULL>>, EmptyBag,
                         handleNavMeshUpdate(ThisNavMeshManager, garbage, U32(0)))
              /\ UNCHANGED crashed
           \/ /\ region = NULL
              /\ ~crashed
              /\ crashed' = TRUE
              /\ lastCall' = [op |-> "LLNavMeshSimStateChangeNode::post",
                              args |-> <<NULL>>, notified |-> <<>>, requests |-> <<>>]
              /\ UNCHANGED <<navMeshVars, http>>
    /\ UNCHANGED <<agentStateVars, linksetsVars>>

\* NavMeshResponder::result handing the entry the manager's version instead
\* of the version the responder was constructed with.
NavMeshResultWithCurrentVersion ==
    /\ \E req \in InFlight("NavMeshResponder"), pContent \in NavMeshContents :
           LET navMeshPtr == req.responder.mNavMeshPtr
           IN  NavMeshDone("NavMeshResponder::result",
                   <<navMeshPtr, req.responder.mNavMeshVersion>>, SetToBag({req}),
                   NavMeshEntryHandled(ThisNavMeshManager, navMeshPtr,
                       handleNavMeshResult(mNavMeshMap[navMeshPtr], pContent,
                                           mNavMeshVersionXXX)))
    /\ UNCHANGED <<agentStateVars, linksetsVars, crashed>>

\* NavMeshResponder::result
NavMeshResult ==
    /\ \E req \in InFlight("NavMeshResponder"), pContent \in NavMeshContents :
           LET navMeshPtr == req.responder.mNavMeshPtr
           IN  NavMeshDone("NavMeshResponder::result",
                   <<navMeshPtr, req.responder.mNavMeshVersion>>, SetToBag({req}),
                   NavMeshEntryHandled(ThisNavMeshManager, navMeshPtr,
                       handleNavMeshResult(mNavMeshMap[navMeshPtr], pContent,
                                           req.responder.mNavMeshVersion)))
    /\ UNCHANGED <<agentStateVars, linksetsVars, crashed>>

\* NavMeshResponder::error
NavMeshError ==
    /\ \E req \in InFlight("NavMeshResponder"), pStatus \in ErrorStatuses :
           LET navMeshPtr == req.responder.mNavMeshPtr
           IN  NavMeshDone("NavMeshResponder::error",
                   <<navMeshPtr, req.responder.mNavMeshVersion>>, SetToBag({req}),
                   NavMeshEntryHandled(ThisNavMeshManager, navMeshPtr,
                       handleNavMeshError(mNavMeshMap[navMeshPtr], pStatus,
                                          req.responder.mCapabilityURL,
                                          req.responder.mNavMeshVersion)))
    /\ UNCHANGED <<agentStateVars, linksetsVars, crashed>>

----------------------------------------------------------------------------
(* The specifications.                                                     *)

\* LLPathfindingManager::LLPathfindingManager, with nothing requested yet.
Init ==
    /\ mNavMeshMap = <<>>
    /\ mNavMeshVersionXXX = U32(0)
    /\ mAgentStateSignal = <<>>
    /\ mAgentState = kAgentStateUnknown
    /\ mLastKnownNonErrorAgentState = kAgentStateUnknown
    /\ linksetsResponders = <<>>
    /\ linksetsReceived = <<>>
    /\ handlersRunning = {}
    /\ http = EmptyBag
    /\ crashed = FALSE
    /\ lastCall = [op |-> "LLPathfindingManager"]

\* The linksets requests and their completions.
NextLinksets ==
    \/ RequestGetLinksets
    \/ RequestSetLinksets
    \/ ObjectLinksetsResult
    \/ ObjectLinksetsError
    \/ TerrainLinksetsResult
    \/ TerrainLinksetsError

SpecLinksets == Init /\ [][NextLinksets]_vars

\* The agent state machine: its operations and the completions of its requests.
NextAgentState ==
    \/ RegisterAgentStateListener
    \/ GetAgentState
    \/ GetLastKnownNonErrorAgentState
    \/ IsAllowAlterPermanent
    \/ RequestSetAgentState
    \/ AgentStateResult
    \/ AgentStateError

SpecAgentState == Init /\ [][NextAgentState]_vars

\* The navmesh entries: the operations on them, the simulator's notifications
\* and the completions of the navmesh requests.
NextNavMesh ==
    \/ RegisterNavMeshListenerForRegion
    \/ RequestGetNavMeshForRegion
    \/ NavMeshSimStateChangePost
    \/ NavMeshResult
    \/ NavMeshError

SpecNavMesh == Init /\ [][NextNavMesh]_vars

\* The manager after 4294967295 notifications: the navmesh of one region was
\* requested and received before the first of them, and every one of them
\* named the other region.
InitWrap ==
    LET received == CHOOSE id \in RegionIds : TRUE
        notified == CHOOSE id \in RegionIds : id # received
    IN  /\ mNavMeshMap =
               (received :> [LLPathfindingNavMesh(received) EXCEPT
                                !.mNavMeshRequestStatus = kNavMeshRequestCompleted])
               @@ (notified :> LLPathfindingNavMesh(notified))
        /\ mNavMeshVersionXXX = U32Max
        /\ mAgentStateSignal = <<>>
        /\ mAgentState = kAgentStateUnknown
        /\ mLastKnownNonErrorAgentState = kAgentStateUnknown
        /\ linksetsResponders = <<>>
        /\ linksetsReceived = <<>>
        /\ handlersRunning = {}
        /\ http = EmptyBag
        /\ crashed = FALSE
        /\ lastCall = [op |-> "LLNavMeshSimStateChangeNode::post",
                       args |-> <<[mRegionID |-> notified, mCapabilities |-> {},
                                   canManageEstate |-> FALSE]>>,
                       notified |-> <<>>, requests |-> <<>>]

\* The navmesh entries when the version counter is about to start again at 0.
SpecNavMeshWrap == InitWrap /\ [][NextNavMesh]_vars

\* The manager once the agent state machine and the navmesh entries were used
\* and every request of theirs was answered: the agent state any the machine
\* reaches, the last known non-error state the one that goes with it, the
\* counter and the map as the constructor or one notification for a region
\* left them, and the call made last getLastKnownNonErrorAgentState.
InitServed ==
    /\ \E state \in EAgentState, known \in EAgentState \ {kAgentStateError} :
           /\ state # kAgentStateError => known = state
           /\ mAgentState = state
           /\ mLastKnownNonErrorAgentState = known
           /\ lastCall = [op |-> "getLastKnownNonErrorAgentState", args |-> <<>>,
                          was |-> state, signalled |-> <<>>, requests |-> <<>>,
                          setAgentStateCalls |-> 0, llassertFailed |-> FALSE,
                          returned |-> known]
    /\ \E notifications \in 0..MaxNavMeshVersion :
           LET notified == CHOOSE id \in RegionIds : TRUE
           IN  /\ mNavMeshVersionXXX = U32(notifications)
               /\ mNavMeshMap = IF notifications = 0 THEN <<>>
                                ELSE notified :> LLPathfindingNavMesh(notified)
    /\ mAgentStateSignal = <<>>
    /\ linksetsResponders = <<>>
    /\ linksetsReceived = <<>>
    /\ handlersRunning = {}
    /\ http = EmptyBag
    /\ crashed = FALSE

\* The linksets requests and their completions on a manager whose other
\* services were used before.
SpecLinksetsServed == InitServed /\ [][NextLinksets]_vars

\* No linksets request was made yet.
LinksetsUnused ==
    /\ linksetsResponders = <<>>
    /\ InFlight("ObjectLinksetsResponder") = {}
    /\ InFlight("TerrainLinksetsResponder") = {}

\* The agent state machine is as the constructor left it.
AgentStateUnused ==
    /\ mAgentStateSignal = <<>>
    /\ mAgentState = kAgentStateUnknown
    /\ mLastKnownNonErrorAgentState = kAgentStateUnknown
    /\ InFlight("AgentStateResponder") = {}

\* The navmesh map and the counter are as the constructor left them.
NavMeshUnused ==
    /\ mNavMeshMap = <<>>
    /\ mNavMeshVersionXXX = U32(0)
    /\ InFlight("NavMeshResponder") = {}

\* The completion of an operation issued for LinksetsResponder ptr: the
\* operation leaves those in flight and its responder's error or result runs.
LinksetsAnswered(ptr) ==
    \E req \in InFlight("ObjectLinksetsResponder")
                \cup InFlight("TerrainLinksetsResponder") :
        /\ req.responder.mLinksetsResponsderPtr = ptr
        /\ http' = http (-) SetToBag({req})
        /\ \/ ObjectLinksetsError
           \/ TerrainLinksetsError
           \/ ObjectLinksetsResult
           \/ TerrainLinksetsResult

\* The completion of an agent-state operation whose responder carries
\* pRequestedAgentState.
AgentStateAnswered(pRequestedAgentState) ==
    \E req \in InFlight("AgentStateResponder") :
        /\ req.responder.mRequestedAgentState = pRequestedAgentState
        /\ http' = http (-) SetToBag({req})
        /\ \/ AgentStateError
           \/ AgentStateResult

\* The completion of a navmesh operation issued for the entry navMeshPtr.
NavMeshAnswered(navMeshPtr) ==
    \E req \in InFlight("NavMeshResponder") :
        /\ req.responder.mNavMeshPtr = navMeshPtr
        /\ http' = http (-) SetToBag({req})
        /\ \/ NavMeshError
           \/ NavMeshResult

\* The three services share no field of the manager, so that each is followed
\* in the behaviours that use it alone.
NextServices ==
    \/ AgentStateUnused /\ NavMeshUnused /\ RequestGetLinksets
    \/ AgentStateUnused /\ NavMeshUnused /\ RequestSetLinksets
    \/ ObjectLinksetsResult
    \/ ObjectLinksetsError
    \/ TerrainLinksetsResult
    \/ TerrainLinksetsError
    \/ LinksetsUnused /\ NavMeshUnused /\ RegisterAgentStateListener
    \/ LinksetsUnused /\ NavMeshUnused /\ GetAgentState
    \/ LinksetsUnused /\ NavMeshUnused /\ GetLastKnownNonErrorAgentState
    \/ LinksetsUnused /\ NavMeshUnused /\ IsAllowAlterPermanent
    \/ LinksetsUnused /\ NavMeshUnused /\ RequestSetAgentState
    \/ AgentStateResult
    \/ AgentStateError
    \/ LinksetsUnused /\ AgentStateUnused /\ RegisterNavMeshListenerForRegion
    \/ LinksetsUnused /\ AgentStateUnused /\ RequestGetNavMeshForRegion
    \/ LinksetsUnused /\ AgentStateUnused /\ NavMeshSimStateChangePost
    \/ NavMeshResult
    \/ NavMeshError

\* The three services together.
SpecServices == Init /\ [][NextServices]_vars

----------------------------------------------------------------------------
(* The linksets join: what is checked of it.                               *)

\* The operations in flight that will be answered to LinksetsResponder ptr.
PendingFor(ptr) ==
    LET mine == {req \in InFlight("ObjectLinksetsResponder")
                         \cup InFlight("TerrainLinksetsResponder") :
                    req.responder.mLinksetsResponsderPtr = ptr}
    IN  BagCardinality([req \in mine |-> http[req]])

\* The list LLPathfindingLinksetList builds from the body of an object response,
\* written out: one object linkset per entry, under the entry's id.
IsListOf(list, content) ==
    /\ DOMAIN list = DOMAIN content
    /\ \A id \in DOMAIN content :
           list[id] = [mUUID |-> id, mLinksetUse |-> content[id], mIsTerrain |-> FALSE]

\* C1: the joined callback of a LinksetsResponder has been invoked exactly once
\* when every operation issued for it has been answered, and not at all while
\* one of them is still in flight: it is never invoked twice and never left out,
\* whatever was requested, whatever the outcomes, in either order of arrival.
C1_CallbackExactlyOnce ==
    \A ptr \in DOMAIN linksetsResponders :
        Len(linksetsResponders[ptr].callbackLog) = IF PendingFor(ptr) = 0 THEN 1 ELSE 0

\* C1's case: both branches were requested, the terrain was answered first and
\* the object's error came last.
C1_Witness ==
    \E ptr \in DOMAIN linksetsResponders :
        /\ linksetsResponders[ptr].mObjectMessagingState = kReceivedError
        /\ linksetsResponders[ptr].mTerrainMessagingState \in {kReceivedGood, kReceivedError}
        /\ lastCall.op = "ObjectLinksetsResponder::error"
        /\ Len(linksetsResponders[ptr].callbackLog) = 1

\* C2: whenever sendCallback ran, neither messaging state was kWaiting (both of
\* its llasserts held).
C2_NoCallbackWhileWaiting ==
    \A ptr \in DOMAIN linksetsResponders :
        \A i \in DOMAIN linksetsResponders[ptr].callbackLog :
            /\ linksetsResponders[ptr].callbackLog[i].objectState # kWaiting
            /\ linksetsResponders[ptr].callbackLog[i].terrainState # kWaiting

\* C2's case: both branches were requested and sendCallback ran from the
\* terrain's result, after the object branch had been answered.
C2_Witness ==
    \E ptr \in DOMAIN linksetsResponders :
        /\ lastCall.op = "TerrainLinksetsResponder::result"
        /\ lastCall.responder = ptr
        /\ linksetsResponders[ptr].mObjectMessagingState \in {kReceivedGood, kReceivedError}
        /\ Len(linksetsResponders[ptr].callbackLog) = 1

\* C3: the status handed to the callback is Completed if each branch is
\* ReceivedGood or NotRequested at the time of the callback, and Error otherwise.
C3_StatusClassification ==
    \A ptr \in DOMAIN linksetsResponders :
        \A i \in DOMAIN linksetsResponders[ptr].callbackLog :
            LET call == linksetsResponders[ptr].callbackLog[i]
            IN  call.requestStatus =
                    IF /\ call.objectState \in {kReceivedGood, kNotRequested}
                       /\ call.terrainState \in {kReceivedGood, kNotRequested}
                    THEN kLinksetsRequestCompleted
                    ELSE kLinksetsRequestError

\* C3's case: the object branch succeeded, the terrain branch failed, and the
\* callback was handed Error.
C3_Witness ==
    \E ptr \in DOMAIN linksetsResponders :
        /\ Len(linksetsResponders[ptr].callbackLog) = 1
        /\ linksetsResponders[ptr].callbackLog[1].objectState = kReceivedGood
        /\ linksetsResponders[ptr].callbackLog[1].terrainState = kReceivedError
        /\ linksetsResponders[ptr].callbackLog[1].requestStatus = kLinksetsRequestError

\* C4: when the object branch succeeded and the terrain branch failed, the
\* callback was invoked once, with Error and a list holding exactly the object
\* linksets received and no terrain entry.
C4_TerrainErrorKeepsObjects ==
    \A ptr \in DOMAIN linksetsResponders :
        (/\ linksetsResponders[ptr].mObjectMessagingState = kReceivedGood
         /\ linksetsResponders[ptr].mTerrainMessagingState = kReceivedError)
        => /\ Len(linksetsResponders[ptr].callbackLog) = 1
           /\ linksetsResponders[ptr].callbackLog[1].requestStatus = kLinksetsRequestError
           /\ IsListOf(linksetsResponders[ptr].callbackLog[1].linksetList,
                       linksetsReceived[ptr].object)
           /\ TerrainId \notin DOMAIN linksetsResponders[ptr].callbackLog[1].linksetList

\* C4's case: two object linksets were received and the terrain's error
\* arrived after them.
C4_Witness ==
    \E ptr \in DOMAIN linksetsResponders :
        /\ linksetsResponders[ptr].mObjectMessagingState = kReceivedGood
        /\ linksetsResponders[ptr].mTerrainMessagingState = kReceivedError
        /\ DOMAIN linksetsReceived[ptr].object = ObjectIds
        /\ lastCall.op = "TerrainLinksetsResponder::error"

\* C5: when both branches succeeded, the list handed to the callback is the
\* object list received with the terrain's linkset added under the terrain's
\* own identifier, in either order of arrival.
C5_MergedList ==
    \A ptr \in DOMAIN linksetsResponders :
        (/\ linksetsResponders[ptr].mObjectMessagingState = kReceivedGood
         /\ linksetsResponders[ptr].mTerrainMessagingState = kReceivedGood)
        => /\ Len(linksetsResponders[ptr].callbackLog) = 1
           /\ LET list == linksetsResponders[ptr].callbackLog[1].linksetList
              IN  /\ DOMAIN list = DOMAIN linksetsReceived[ptr].object \cup {TerrainId}
                  /\ list[TerrainId] =
                         [mUUID |-> TerrainId,
                          mLinksetUse |-> linksetsReceived[ptr].terrain.linkset_use,
                          mIsTerrain |-> TRUE]
                  /\ IsListOf([id \in DOMAIN list \ {TerrainId} |-> list[id]],
                              linksetsReceived[ptr].object)

\* C5's case: both branches succeeded, the object result arriving last with a
\* list that is not empty.
C5_Witness ==
    \E ptr \in DOMAIN linksetsResponders :
        /\ linksetsResponders[ptr].mObjectMessagingState = kReceivedGood
        /\ linksetsResponders[ptr].mTerrainMessagingState = kReceivedGood
        /\ linksetsReceived[ptr].object # <<>>
        /\ lastCall.op = "ObjectLinksetsResponder::result"

\* C6: when the terrain is not requested, the callback has fired as soon as the
\* object branch is answered, with Completed and the object list on success
\* and with Error and an empty list on error.
C6_ObjectAloneDecides ==
    \A ptr \in DOMAIN linksetsResponders :
        LET self == linksetsResponders[ptr]
        IN  self.mTerrainMessagingState = kNotRequested
            => /\ self.mObjectMessagingState = kWaiting => self.callbackLog = <<>>
               /\ self.mObjectMessagingState = kReceivedGood
                  => /\ Len(self.callbackLog) = 1
                     /\ self.callbackLog[1].requestStatus = kLinksetsRequestCompleted
                     /\ IsListOf(self.callbackLog[1].linksetList,
                                 linksetsReceived[ptr].object)
               /\ self.mObjectMessagingState = kReceivedError
                  => /\ Len(self.callbackLog) = 1
                     /\ self.callbackLog[1].requestStatus = kLinksetsRequestError
                     /\ self.callbackLog[1].linksetList = <<>>
               /\ self.mObjectMessagingState # kNotRequested

\* C6's case: the terrain was not requested and the object operation failed.
C6_Witness ==
    \E ptr \in DOMAIN linksetsResponders :
        /\ linksetsResponders[ptr].mTerrainMessagingState = kNotRequested
        /\ linksetsResponders[ptr].mObjectMessagingState = kReceivedError
        /\ lastCall.op = "ObjectLinksetsResponder::error"

\* C7 as stated: requestGetLinksets and requestSetLinksets each return
\* NotEnabled or Started, and nothing else.
C7_OnlyNotEnabledOrStarted ==
    lastCall.op \in {"requestGetLinksets", "requestSetLinksets"}
    => lastCall.status \in {kLinksetsRequestNotEnabled, kLinksetsRequestStarted}

\* C7 as the code has it: requestGetLinksets returns NotEnabled or Started;
\* requestSetLinksets returns NotEnabled, Started or Completed.  Started is
\* returned exactly when a LinksetsResponder was constructed and at least one
\* operation issued for it, and its callback has not been invoked when the
\* request returns; with any other status nothing is constructed or issued.
C7_ImmediateStatus ==
    lastCall.op \in {"requestGetLinksets", "requestSetLinksets"}
    => /\ lastCall.op = "requestGetLinksets"
          => lastCall.status \in {kLinksetsRequestNotEnabled, kLinksetsRequestStarted}
       /\ lastCall.op = "requestSetLinksets"
          => lastCall.status \in {kLinksetsRequestNotEnabled, kLinksetsRequestStarted,
                                  kLinksetsRequestCompleted}
       /\ lastCall.status = kLinksetsRequestStarted
          => /\ lastCall.responder \in DOMAIN linksetsResponders
             /\ lastCall.requests # <<>>
             /\ linksetsResponders[lastCall.responder].callbackLog = <<>>
       /\ lastCall.status # kLinksetsRequestStarted
          => /\ lastCall.responder = 0
             /\ lastCall.requests = <<>>

\* C7's case: requestSetLinksets found both capabilities and nothing to send,
\* and returned Completed.
C7_Witness ==
    /\ lastCall.op = "requestSetLinksets"
    /\ lastCall.status = kLinksetsRequestCompleted

----------------------------------------------------------------------------
(* The navmesh entries: what is checked of them.                           *)

\* C8: in every state, for every region whose entry holds data of the current
\* global version, requestGetNavMeshForRegion for that region issues no HTTP
\* operation, leaves the map (the entry's state and version with it) and the
\* counter as they are, and invokes every slot connected to the entry exactly
\* once, in the order of connection, with RequestCompleted and that version.
C8_RefreshWhenCurrent ==
    \A pRegion \in NavMeshRegions :
        LET navMeshPtr == RegionUUID(pRegion)
        IN  (/\ navMeshPtr \in DOMAIN mNavMeshMap
             /\ hasNavMeshVersion(mNavMeshMap[navMeshPtr], mNavMeshVersionXXX))
            => LET navMesh == mNavMeshMap[navMeshPtr]
                   after == requestGetNavMeshForRegion(ThisNavMeshManager, pRegion)
               IN  /\ after.requests = <<>>
                   /\ after.mNavMeshMap = mNavMeshMap
                   /\ after.mNavMeshVersionXXX = mNavMeshVersionXXX
                   /\ Len(after.notified) = Len(navMesh.mNavMeshSignal)
                   /\ \A i \in DOMAIN navMesh.mNavMeshSignal :
                          after.notified[i] =
                              [region |-> navMeshPtr, slot |-> i,
                               callback |-> navMesh.mNavMeshSignal[i],
                               status |-> kNavMeshRequestCompleted,
                               version |-> mNavMeshVersionXXX, details |-> <<>>]

\* C8's case: requestGetNavMeshForRegion has run for a region whose entry held
\* data of the current version, a notification having moved the counter
\* before that data was requested, and a connected slot was told of it.
C8_Witness ==
    /\ lastCall.op = "requestGetNavMeshForRegion"
    /\ lastCall.requests = <<>>
    /\ Len(lastCall.notified) = 1
    /\ lastCall.notified[1].status = kNavMeshRequestCompleted
    /\ lastCall.notified[1].version = mNavMeshVersionXXX
    /\ mNavMeshVersionXXX = U32(1)
    /\ http = EmptyBag

----------------------------------------------------------------------------
(* The agent state machine: what is checked of it.                         *)

\* The member functions of the agent state machine.
AgentStateOps ==
    {"registerAgentStateListener", "getAgentState", "getLastKnownNonErrorAgentState",
     "isAllowAlterPermanent", "requestSetAgentState",
     "AgentStateResponder::result", "AgentStateResponder::error"}

\* The state a response body stands for: the primary field if it is present,
\* else the deprecated one; true is Unfrozen, anything else Frozen.
AnsweredState(pContent) ==
    LET answer == IF pContent["alter_navmesh_objects"] # LLSDUndefined
                  THEN pContent["alter_navmesh_objects"]
                  ELSE pContent["alter_permanent_objects"]
    IN  IF answer = [boolean |-> TRUE] THEN kAgentStateUnfrozen ELSE kAgentStateFrozen

\* C9: after the successful response to a requestSetAgentState(T), T being
\* Frozen or Unfrozen, the agent state is T if the response stands for T and
\* Error if it stands for the other state.
C9_SetAgentStateVerified ==
    (/\ lastCall.op = "AgentStateResponder::result"
     /\ lastCall.args[2] \in {kAgentStateFrozen, kAgentStateUnfrozen})
    => mAgentState = IF AnsweredState(lastCall.args[1]) = lastCall.args[2]
                     THEN lastCall.args[2]
                     ELSE kAgentStateError

\* C9's case: the response to requestSetAgentState(Frozen) says that altering
\* is allowed, and the state becomes Error.
C9_Witness ==
    /\ lastCall.op = "AgentStateResponder::result"
    /\ lastCall.args[2] = kAgentStateFrozen
    /\ lastCall.args[1]["alter_navmesh_objects"] = [boolean |-> TRUE]
    /\ lastCall.was = kAgentStateUnfrozen
    /\ mAgentState = kAgentStateError

\* C10: a member function runs setAgentState at most once, a completion
\* exactly once, and each run invokes every connected slot exactly once, in
\* the order of connection, with the state the manager then holds; a function
\* that does not run it invokes no slot.
C10_EveryTransitionSignalled ==
    lastCall.op \in AgentStateOps
    => /\ lastCall.setAgentStateCalls \in {0, 1}
       /\ lastCall.op \in {"AgentStateResponder::result", "AgentStateResponder::error"}
          => lastCall.setAgentStateCalls = 1
       /\ lastCall.setAgentStateCalls = 0 => lastCall.signalled = <<>>
       /\ lastCall.setAgentStateCalls = 1
          => /\ Len(lastCall.signalled) = Len(mAgentStateSignal)
             /\ \A i \in DOMAIN mAgentStateSignal :
                    lastCall.signalled[i] =
                        [slot |-> i, callback |-> mAgentStateSignal[i],
                         state |-> mAgentState]

\* C10's case: two listeners are connected, the state is Unfrozen already, and
\* the matching response to requestSetAgentState(Unfrozen) arrives.
C10_Witness ==
    /\ lastCall.op = "AgentStateResponder::result"
    /\ lastCall.args[2] = kAgentStateUnfrozen
    /\ lastCall.was = kAgentStateUnfrozen
    /\ mAgentState = kAgentStateUnfrozen
    /\ Len(mAgentStateSignal) = 2
    /\ Len(lastCall.signalled) = 2

\* Every connected slot was invoked once, in the order of connection, with
\* pAgentState.
ToldOnce(signalled, pAgentState) ==
    /\ Len(signalled) = Len(mAgentStateSignal)
    /\ \A i \in DOMAIN mAgentStateSignal :
           signalled[i] = [slot |-> i, callback |-> mAgentStateSignal[i],
                           state |-> pAgentState]

\* C11 as stated: every set request in flight carries a target of Frozen or
\* Unfrozen, and requestSetAgentState for any other target issues no request.
C11_SetRequestsCarryValidTargets ==
    /\ \A req \in InFlight("AgentStateResponder") :
           req.method = "post" => isValidAgentState(req.responder.mRequestedAgentState)
    /\ (/\ lastCall.op = "requestSetAgentState"
        /\ ~isValidAgentState(lastCall.args[1]))
       => lastCall.requests = <<>>

\* C12: in every state, for every agent whose current region grants no
\* agent-state capability (or who has no region) and for a target of Frozen or
\* Unfrozen, requestSetAgentState leaves the state NotEnabled, has invoked
\* every connected slot once with NotEnabled, and issues no HTTP operation.
C12_NoCapabilityMeansNotEnabled ==
    \A agent \in AgentStateAgents :
        \A pRequestedAgentState \in {kAgentStateFrozen, kAgentStateUnfrozen} :
            getAgentStateURLForCurrentRegion(agent) = ""
            => LET after == requestSetAgentState(ThisManager, agent,
                                                 pRequestedAgentState)
               IN  /\ after.mAgentState = kAgentStateNotEnabled
                   /\ after.mLastKnownNonErrorAgentState = kAgentStateNotEnabled
                   /\ after.mAgentStateSignal = mAgentStateSignal
                   /\ ToldOnce(after.signalled, kAgentStateNotEnabled)
                   /\ after.requests = <<>>

\* C12's case: the state was Frozen, requestSetAgentState(Unfrozen) found no
\* capability and told a connected slot of NotEnabled.
C12_Witness ==
    /\ lastCall.op = "requestSetAgentState"
    /\ lastCall.args[1] = kAgentStateUnfrozen
    /\ lastCall.was = kAgentStateFrozen
    /\ lastCall.requests = <<>>
    /\ Len(lastCall.signalled) = 1
    /\ mAgentState = kAgentStateNotEnabled

\* C13: in every state, whatever the agent state is, for every agent whose
\* current region grants no retrieve-navmesh capability (or who has no
\* region), getAgentState leaves the state NotEnabled, returns NotEnabled,
\* has invoked every connected slot once with NotEnabled and issues no HTTP
\* operation.
C13_DisabledMeansNotEnabled ==
    \A agent \in AgentStateAgents :
        ~isPathfindingEnabledForCurrentRegion(agent)
        => LET after == getAgentState(ThisManager, agent)
           IN  /\ after.mAgentState = kAgentStateNotEnabled
               /\ after.returned = kAgentStateNotEnabled
               /\ ToldOnce(after.signalled, kAgentStateNotEnabled)
               /\ after.requests = <<>>

\* C13's case: the state was a confirmed Unfrozen and getAgentState made it
\* NotEnabled.
C13_Witness ==
    /\ lastCall.op = "getAgentState"
    /\ lastCall.was = kAgentStateUnfrozen
    /\ lastCall.returned = kAgentStateNotEnabled
    /\ lastCall.requests = <<>>
    /\ mAgentState = kAgentStateNotEnabled

\* C14 as stated: with pathfinding enabled, getAgentState issues a GET if and
\* only if the state is neither Frozen nor Unfrozen, and returns the state it
\* found.
C14_GetIffNotValid ==
    \A agent \in AgentStateAgents :
        isPathfindingEnabledForCurrentRegion(agent)
        => LET after == getAgentState(ThisManager, agent)
           IN  /\ after.requests # <<>> <=> ~isValidAgentState(mAgentState)
               /\ after.returned = mAgentState

\* C14 as the code has it: with pathfinding enabled, getAgentState on a state
\* of Frozen or Unfrozen issues nothing and returns that state unchanged; on
\* any other state it issues exactly one GET to the agent-state capability and
\* returns the state it found, unchanged, if the region grants that
\* capability, and if not it issues nothing, makes the state NotEnabled, tells
\* every connected slot and returns NotEnabled.
C14_GetIffNotValidAndCapable ==
    \A agent \in AgentStateAgents :
        isPathfindingEnabledForCurrentRegion(agent)
        => LET after == getAgentState(ThisManager, agent)
               agentStateURL == getAgentStateURLForCurrentRegion(agent)
           IN  /\ isValidAgentState(mAgentState)
                  => /\ after.requests = <<>>
                     /\ after.signalled = <<>>
                     /\ after.mAgentState = mAgentState
                     /\ after.returned = mAgentState
               /\ (~isValidAgentState(mAgentState) /\ agentStateURL # "")
                  => /\ Len(after.requests) = 1
                     /\ after.requests[1].method = "get"
                     /\ after.requests[1].url = agentStateURL
                     /\ after.requests[1].responder.mRequestedAgentState
                            = kAgentStateUnknown
                     /\ after.signalled = <<>>
                     /\ after.mAgentState = mAgentState
                     /\ after.returned = mAgentState
               /\ (~isValidAgentState(mAgentState) /\ agentStateURL = "")
                  => /\ after.requests = <<>>
                     /\ ToldOnce(after.signalled, kAgentStateNotEnabled)
                     /\ after.mAgentState = kAgentStateNotEnabled
                     /\ after.returned = kAgentStateNotEnabled

\* C14's case: the state was Error, getAgentState issued a GET and returned
\* Error.
C14_Witness ==
    /\ lastCall.op = "getAgentState"
    /\ lastCall.was = kAgentStateError
    /\ Len(lastCall.requests) = 1
    /\ lastCall.requests[1].method = "get"
    /\ lastCall.returned = kAgentStateError
    /\ mAgentState = kAgentStateError

\* C15: after the transport error of an agent-state request, whatever the
\* state was and whatever target the request carried, the state is Error,
\* every connected slot was invoked once with Error, and nothing was issued.
C15_TransportErrorMeansError ==
    lastCall.op = "AgentStateResponder::error"
    => /\ mAgentState = kAgentStateError
       /\ ToldOnce(lastCall.signalled, kAgentStateError)
       /\ lastCall.requests = <<>>

\* C15's case: the state was Frozen and the set request for Unfrozen failed,
\* two slots being connected.
C15_Witness ==
    /\ lastCall.op = "AgentStateResponder::error"
    /\ lastCall.args[2] = kAgentStateUnfrozen
    /\ lastCall.was = kAgentStateFrozen
    /\ Len(lastCall.signalled) = 2
    /\ mAgentState = kAgentStateError

\* C16: the last known non-error state is never Error and is the agent state
\* whenever that is not Error, it is what getLastKnownNonErrorAgentState
\* returns, and a step that leaves the agent state Error leaves it as it was:
\* it is the most recent state other than Error, Unknown if there was none.
C16_LastKnownNonError ==
    /\ [](/\ mLastKnownNonErrorAgentState # kAgentStateError
          /\ mAgentState # kAgentStateError
             => mLastKnownNonErrorAgentState = mAgentState
          /\ lastCall.op = "getLastKnownNonErrorAgentState"
             => lastCall.returned = mLastKnownNonErrorAgentState)
    /\ [][mAgentState' = kAgentStateError
          => mLastKnownNonErrorAgentState' = mLastKnownNonErrorAgentState]_vars

\* C16's case: the state is Error after having been Frozen, and
\* getLastKnownNonErrorAgentState returned Frozen.
C16_Witness ==
    /\ lastCall.op = "getLastKnownNonErrorAgentState"
    /\ lastCall.returned = kAgentStateFrozen
    /\ mAgentState = kAgentStateError
    /\ mLastKnownNonErrorAgentState = kAgentStateFrozen

----------------------------------------------------------------------------
(* The navmesh entries: what is checked of the counter and of the map.     *)

\* The ids an entry can be asked for.
AllRegionIds == RegionIds \cup {NullRegionId}

\* The regions that grant the retrieve-navmesh capability.
CapableNavMeshRegions ==
    {pRegion \in NavMeshRegions \ {NULL} :
        getRetrieveNavMeshURLForRegion(pRegion) # ""}

\* The navmesh operations in flight for the entry of region id.
NavMeshRequestsFor(id) ==
    LET mine == {req \in InFlight("NavMeshResponder") : req.responder.mNavMeshPtr = id}
    IN  BagCardinality([req \in mine |-> http[req]])

\* C17 as stated: no step makes the version counter smaller, and a step in
\* which handleNavMeshUpdate has run makes it larger and leaves no entry of
\* the map, whatever its region, holding data of the version that is then
\* current.
C17_VersionStrictlyIncreases ==
    [][/\ ~U32Less(mNavMeshVersionXXX', mNavMeshVersionXXX)
       /\ (lastCall'.op = "LLNavMeshSimStateChangeNode::post" /\ ~crashed')
          => /\ U32Less(mNavMeshVersionXXX, mNavMeshVersionXXX')
             /\ \A id \in DOMAIN mNavMeshMap' :
                    ~hasNavMeshVersion(mNavMeshMap'[id], mNavMeshVersionXXX')]_vars

\* C18: in every state and for every region id, handleNavMeshUpdate issues no
\* HTTP operation, so that the operations in flight are those in flight before
\* it; and requestGetNavMeshForRegion run after it for the region it named, if
\* that grants the capability, issues exactly one, tagged with the new version.
C18_UpdateIssuesNothing ==
    /\ lastCall.op = "LLNavMeshSimStateChangeNode::post" => lastCall.requests = <<>>
    /\ \A pRegionUUID \in AllRegionIds :
           Issued(handleNavMeshUpdate(ThisNavMeshManager, pRegionUUID,
                                      U32(0)).requests) = EmptyBag
    /\ \A pRegion \in CapableNavMeshRegions :
           LET updated == handleNavMeshUpdate(ThisNavMeshManager,
                                              pRegion.mRegionID, U32(0))
               requested == requestGetNavMeshForRegion(updated, pRegion)
           IN  /\ Len(requested.requests) = 1
               /\ requested.requests[1].responder.mNavMeshVersion
                      = updated.mNavMeshVersionXXX
               /\ requested.requests[1].responder.mNavMeshPtr = pRegion.mRegionID

\* C18's case: a request was in flight when a notification for its region
\* arrived, and it is still the only one.
C18_Witness ==
    /\ lastCall.op = "LLNavMeshSimStateChangeNode::post"
    /\ ~crashed
    /\ mNavMeshVersionXXX = U32(1)
    /\ lastCall.args[1] # NULL
    /\ NavMeshRequestsFor(lastCall.args[1].mRegionID) = 1
    /\ BagCardinality(http) = 1

\* C19: the map has one entry under each id it holds, the entry of that
\* region; a lookup of an id puts a new entry without data under it if there
\* is none and else changes nothing, the lookup for no region being that of
\* the null id; every operation leaves the region it names with an entry; and
\* no step removes an entry or takes a connected slot from one.
C19_OneEntryPerRegionForEver ==
    /\ [](/\ DOMAIN mNavMeshMap \subseteq AllRegionIds
          /\ \A id \in DOMAIN mNavMeshMap : mNavMeshMap[id].mRegionUUID = id
          /\ \A req \in InFlight("NavMeshResponder") :
                 req.responder.mNavMeshPtr \in DOMAIN mNavMeshMap
          /\ \A id \in AllRegionIds :
                 LET found == getNavMeshForRegionUUID(ThisNavMeshManager, id)
                 IN  /\ DOMAIN found.mNavMeshMap = DOMAIN mNavMeshMap \cup {id}
                     /\ \A other \in DOMAIN mNavMeshMap :
                            found.mNavMeshMap[other] = mNavMeshMap[other]
                     /\ id \notin DOMAIN mNavMeshMap
                        => found.mNavMeshMap[id] = LLPathfindingNavMesh(id)
                     /\ getNavMeshForRegionUUID(found, id) = found
          /\ getNavMeshForRegion(ThisNavMeshManager, NULL)
                 = getNavMeshForRegionUUID(ThisNavMeshManager, NullRegionId)
          /\ lastCall.op \in {"registerNavMeshListenerForRegion",
                              "requestGetNavMeshForRegion"}
             => lastCall.args[1] \in DOMAIN mNavMeshMap
          /\ (/\ lastCall.op = "LLNavMeshSimStateChangeNode::post"
              /\ lastCall.args[1] # NULL)
             => lastCall.args[1].mRegionID \in DOMAIN mNavMeshMap)
    /\ [][/\ DOMAIN mNavMeshMap \subseteq DOMAIN mNavMeshMap'
          /\ \A id \in DOMAIN mNavMeshMap :
                 /\ mNavMeshMap'[id].mRegionUUID = id
                 /\ Len(mNavMeshMap[id].mNavMeshSignal)
                        <= Len(mNavMeshMap'[id].mNavMeshSignal)
                 /\ \A i \in DOMAIN mNavMeshMap[id].mNavMeshSignal :
                        mNavMeshMap'[id].mNavMeshSignal[i]
                            = mNavMeshMap[id].mNavMeshSignal[i]]_vars

\* C19's case: the entries of both regions and of the null id exist, a
\* notification has arrived, and a request found the entry of its region with
\* its slot still connected.
C19_Witness ==
    /\ DOMAIN mNavMeshMap = AllRegionIds
    /\ mNavMeshVersionXXX = U32(1)
    /\ lastCall.op = "requestGetNavMeshForRegion"
    /\ Len(lastCall.notified) = 1
    /\ Len(mNavMeshMap[lastCall.args[1]].mNavMeshSignal) = 1

\* C20 as stated: at most one navmesh operation is in flight for a region, and
\* requestGetNavMeshForRegion for a region whose entry is RequestStarted issues
\* none.
C20_OneRequestPerRegion ==
    /\ \A id \in AllRegionIds : NavMeshRequestsFor(id) <= 1
    /\ \A pRegion \in NavMeshRegions :
           LET id == RegionUUID(pRegion)
           IN  (/\ id \in DOMAIN mNavMeshMap
                /\ mNavMeshMap[id].mNavMeshRequestStatus = kNavMeshRequestStarted)
               => requestGetNavMeshForRegion(ThisNavMeshManager, pRegion).requests = <<>>

----------------------------------------------------------------------------
(* Every request ends.                                                     *)

\* C21: (a) if every navmesh operation issued for a region is answered, an
\* entry of that region that is RequestStarted is later RequestCompleted or
\* Error, a completion for it having told every slot connected to it of that
\* state, unless the viewer has crashed; the entry of the null id is never
\* RequestStarted.  (b) If every agent-state operation is answered, one in
\* flight is later answered by a completion that ran setAgentState once and
\* told every connected slot of the state the manager then holds.  (c) If
\* every operation issued for a LinksetsResponder is answered, the callback of
\* that LinksetsResponder (its request returned Started) is later invoked,
\* once.
C21_EveryRequestEnds ==
    /\ \A id \in RegionIds :
           WF_vars(NavMeshAnswered(id))
           => ((/\ id \in DOMAIN mNavMeshMap
                /\ mNavMeshMap[id].mNavMeshRequestStatus = kNavMeshRequestStarted)
               ~> (\/ crashed
                   \/ /\ lastCall.op \in {"NavMeshResponder::result",
                                          "NavMeshResponder::error"}
                      /\ lastCall.args[1] = id
                      /\ mNavMeshMap[id].mNavMeshRequestStatus
                             \in {kNavMeshRequestCompleted, kNavMeshError}
                      /\ Len(lastCall.notified) = Len(mNavMeshMap[id].mNavMeshSignal)
                      /\ \A i \in DOMAIN lastCall.notified :
                             /\ lastCall.notified[i].slot = i
                             /\ lastCall.notified[i].status
                                    = mNavMeshMap[id].mNavMeshRequestStatus))
    /\ [](NullRegionId \in DOMAIN mNavMeshMap
          => mNavMeshMap[NullRegionId].mNavMeshRequestStatus # kNavMeshRequestStarted)
    /\ \A pRequestedAgentState \in EAgentState :
           WF_vars(AgentStateAnswered(pRequestedAgentState))
           => ((\E req \in InFlight("AgentStateResponder") :
                    req.responder.mRequestedAgentState = pRequestedAgentState)
               ~> (/\ lastCall.op \in {"AgentStateResponder::result",
                                       "AgentStateResponder::error"}
                   /\ lastCall.args[2] = pRequestedAgentState
                   /\ lastCall.setAgentStateCalls = 1
                   /\ ToldOnce(lastCall.signalled, mAgentState)))
    /\ \A ptr \in 1..MaxResponders :
           WF_vars(LinksetsAnswered(ptr))
           => ((ptr \in DOMAIN linksetsResponders)
               ~> (/\ ptr \in DOMAIN linksetsResponders
                   /\ Len(linksetsResponders[ptr].callbackLog) = 1))

\* C21's case: the request of an entry that was RequestStarted has failed, the
\* entry is Error and the slot connected to it was told so.
C21_Witness ==
    /\ lastCall.op = "NavMeshResponder::error"
    /\ mNavMeshMap[lastCall.args[1]].mNavMeshRequestStatus = kNavMeshError
    /\ Len(lastCall.notified) = 1
    /\ lastCall.notified[1].status = kNavMeshError
    /\ http = EmptyBag

----------------------------------------------------------------------------
(* The completions: what is checked of them.                               *)

\* The completions of the agent-state and navmesh operations.
ManagerCompletions ==
    {"AgentStateResponder::result", "AgentStateResponder::error",
     "NavMeshResponder::result", "NavMeshResponder::error"}

\* The branches of LinksetsResponder ptr that still wait for their completion.
WaitingBranches(ptr) ==
    (IF linksetsResponders[ptr].mObjectMessagingState = kWaiting THEN 1 ELSE 0)
    + (IF linksetsResponders[ptr].mTerrainMessagingState = kWaiting THEN 1 ELSE 0)

\* C22: the result or error of an agent-state or navmesh operation issues no
\* HTTP operation, after a success or after a failure; and the operations in
\* flight for a LinksetsResponder are as many as its branches that still wait,
\* so that a branch that has received its result or its error has none: no
\* completion issues an operation, and only the request operations do.
C22_CompletionsIssueNothing ==
    /\ lastCall.op \in ManagerCompletions => lastCall.requests = <<>>
    /\ \A ptr \in DOMAIN linksetsResponders : PendingFor(ptr) = WaitingBranches(ptr)

\* C22's case: the only agent-state operation in flight has failed, the state
\* is Error and no operation is in flight.
C22_Witness ==
    /\ lastCall.op = "AgentStateResponder::error"
    /\ lastCall.requests = <<>>
    /\ mAgentState = kAgentStateError
    /\ http = EmptyBag

----------------------------------------------------------------------------
(* The navmesh entries: what is checked of their freshness.                *)

\* C23: an entry holds current data (hasNavMeshVersion of the manager's
\* counter) only if the version it stores is the counter's value, never if
\* that version is smaller; and requestGetNavMeshForRegion has taken the
\* refresh path (nothing issued, the entry RequestCompleted) only for an entry
\* whose stored version is the counter's value.
C23_CurrentMeansSameVersion ==
    /\ \A id \in DOMAIN mNavMeshMap :
           /\ hasNavMeshVersion(mNavMeshMap[id], mNavMeshVersionXXX)
              => mNavMeshMap[id].mNavMeshVersion = mNavMeshVersionXXX
           /\ U32Less(mNavMeshMap[id].mNavMeshVersion, mNavMeshVersionXXX)
              => ~hasNavMeshVersion(mNavMeshMap[id], mNavMeshVersionXXX)
    /\ (/\ lastCall.op = "requestGetNavMeshForRegion"
        /\ lastCall.requests = <<>>
        /\ mNavMeshMap[lastCall.args[1]].mNavMeshRequestStatus
               = kNavMeshRequestCompleted)
       => mNavMeshMap[lastCall.args[1]].mNavMeshVersion = mNavMeshVersionXXX

\* C23's case: the result of a request made before a notification has arrived
\* after it; the entry is RequestCompleted with the older version and does not
\* hold current data.
C23_Witness ==
    /\ lastCall.op = "NavMeshResponder::result"
    /\ mNavMeshMap[lastCall.args[1]].mNavMeshRequestStatus = kNavMeshRequestCompleted
    /\ mNavMeshMap[lastCall.args[1]].mNavMeshVersion = U32(0)
    /\ mNavMeshVersionXXX = U32(1)
    /\ ~hasNavMeshVersion(mNavMeshMap[lastCall.args[1]], mNavMeshVersionXXX)

----------------------------------------------------------------------------
(* The linksets requests: what is checked of the terrain branch.           *)

\* The agents that may not view the terrain properties.
AgentsWithoutTerrainPermission ==
    {agent \in LinksetsAgents : ~isAllowViewTerrainProperties(agent)}

\* The join of the object branch alone: the object operation and no other, for
\* a LinksetsResponder whose terrain branch is not requested.
IsObjectOnlyJoin(call, ptr) ==
    /\ call.status = kLinksetsRequestStarted
    /\ call.responder # NULL
    /\ call.responder.mObjectMessagingState = kWaiting
    /\ call.responder.mTerrainMessagingState = kNotRequested
    /\ Len(call.requests) = 1
    /\ call.requests[1].method = "get"
    /\ call.requests[1].responder.class = "ObjectLinksetsResponder"
    /\ call.requests[1].responder.mLinksetsResponsderPtr = ptr

\* C24 as stated: a caller without the terrain permission gets Started and the
\* join of the object branch alone whenever the region grants the
\* object-linksets capability, whether or not it grants the terrain-linksets
\* capability.
C24_ObjectCapabilityIsEnough ==
    \A agent \in AgentsWithoutTerrainPermission,
       pLinksetsCallback \in LinksetsCallbacks :
        getObjectLinksetsURLForCurrentRegion(agent) # ""
        => IsObjectOnlyJoin(
               requestGetLinksets(agent, pLinksetsCallback,
                                  Len(linksetsResponders) + 1),
               Len(linksetsResponders) + 1)

\* C24, amended: requestGetLinksets starts only if the region grants both the
\* object-linksets and the terrain-linksets capability, and returns NotEnabled
\* with nothing constructed or issued otherwise, whatever the permission.  Once
\* it starts, the terrain branch is requested exactly if the caller may view
\* the terrain properties, and a caller that may not gets the join of the
\* object branch alone.
C24_TerrainByPermissionOnceEnabled ==
    /\ \A agent \in LinksetsAgents, pLinksetsCallback \in LinksetsCallbacks :
           LET ptr == Len(linksetsResponders) + 1
               call == requestGetLinksets(agent, pLinksetsCallback, ptr)
               enabled == /\ getObjectLinksetsURLForCurrentRegion(agent) # ""
                          /\ getTerrainLinksetsURLForCurrentRegion(agent) # ""
           IN  /\ ~enabled => call = LinksetsCall(kLinksetsRequestNotEnabled, NULL, <<>>)
               /\ enabled =>
                   /\ call.status = kLinksetsRequestStarted
                   /\ (call.responder.mTerrainMessagingState = kWaiting)
                          <=> isAllowViewTerrainProperties(agent)
                   /\ (\E i \in 1..Len(call.requests) :
                           call.requests[i].responder.class = "TerrainLinksetsResponder")
                          <=> isAllowViewTerrainProperties(agent)
                   /\ ~isAllowViewTerrainProperties(agent) => IsObjectOnlyJoin(call, ptr)
    /\ (lastCall.op = "requestGetLinksets" /\ lastCall.status = kLinksetsRequestStarted)
       => /\ lastCall.requests[1].url = "cap://" \o CAP_SERVICE_OBJECT_LINKSETS
          /\ Len(lastCall.requests) = 2
             => lastCall.requests[2].url = "cap://" \o CAP_SERVICE_TERRAIN_LINKSETS

\* C24's case: requestGetLinksets has started the join of the object branch
\* alone, the terrain branch not requested.
C24_Witness ==
    /\ lastCall.op = "requestGetLinksets"
    /\ lastCall.status = kLinksetsRequestStarted
    /\ Len(lastCall.requests) = 1
    /\ lastCall.requests[1].responder.class = "ObjectLinksetsResponder"
    /\ linksetsResponders[lastCall.responder].mTerrainMessagingState = kNotRequested
    /\ linksetsResponders[lastCall.responder].mObjectMessagingState = kWaiting
    /\ PendingFor(lastCall.responder) = 1

----------------------------------------------------------------------------
(* The set request: what is checked of it.                                 *)

\* The operation requestSetAgentState(T) issues but for its method: one, to the
\* agent-state capability, its body the boolean (T = Unfrozen) under the
\* primary and under the deprecated field, its responder an AgentStateResponder
\* constructed with T.
IsSetRequestFor(requests, pRequestedAgentState) ==
    /\ Len(requests) = 1
    /\ requests[1].url = "cap://" \o CAP_SERVICE_AGENT_STATE
    /\ DOMAIN requests[1].body
          = {ALTER_NAVMESH_OBJECTS_FIELD, DEPRECATED_ALTER_NAVMESH_OBJECTS_FIELD}
    /\ requests[1].body[ALTER_NAVMESH_OBJECTS_FIELD]
          = LLSDBoolean(pRequestedAgentState = kAgentStateUnfrozen)
    /\ requests[1].body[DEPRECATED_ALTER_NAVMESH_OBJECTS_FIELD]
          = LLSDBoolean(pRequestedAgentState = kAgentStateUnfrozen)
    /\ requests[1].responder.class = "AgentStateResponder"
    /\ requests[1].responder.mRequestedAgentState = pRequestedAgentState

\* C25 as stated: the operation requestSetAgentState(T) issues is an HTTP PUT
\* with that body and that responder.
C25_SetRequestIsPut ==
    (lastCall.op = "requestSetAgentState" /\ lastCall.requests # <<>>)
    => /\ IsSetRequestFor(lastCall.requests, lastCall.args[1])
       /\ lastCall.requests[1].method = "put"

\* C25, amended: the operation requestSetAgentState(T) issues is an HTTP POST
\* whose body carries the boolean (T = Unfrozen) under the primary field and
\* under the deprecated field, and whose responder is constructed with T; the
\* result of the operation is compared with that T, leaving the state T or
\* Error.
C25_SetRequestIsPost ==
    /\ (lastCall.op = "requestSetAgentState" /\ lastCall.requests # <<>>)
       => /\ IsSetRequestFor(lastCall.requests, lastCall.args[1])
          /\ lastCall.requests[1].method = "post"
    /\ (lastCall.op = "AgentStateResponder::result"
        /\ isValidAgentState(lastCall.args[2]))
       => mAgentState \in {lastCall.args[2], kAgentStateError}
    /\ \A req \in InFlight("AgentStateResponder") :
           req.method = "post"
           => /\ isBoolean(req.body[ALTER_NAVMESH_OBJECTS_FIELD])
              /\ asBoolean(req.body[ALTER_NAVMESH_OBJECTS_FIELD])
                    = (req.responder.mRequestedAgentState = kAgentStateUnfrozen)
              /\ req.body[DEPRECATED_ALTER_NAVMESH_OBJECTS_FIELD]
                    = req.body[ALTER_NAVMESH_OBJECTS_FIELD]

\* C25's case: requestSetAgentState(Unfrozen) has issued its operation, a POST
\* of true under both fields with a responder constructed with Unfrozen.
C25_Witness ==
    /\ lastCall.op = "requestSetAgentState"
    /\ lastCall.args[1] = kAgentStateUnfrozen
    /\ Len(lastCall.requests) = 1
    /\ lastCall.requests[1].method = "post"
    /\ lastCall.requests[1].body[ALTER_NAVMESH_OBJECTS_FIELD] = LLSDBoolean(TRUE)
    /\ lastCall.requests[1].body[DEPRECATED_ALTER_NAVMESH_OBJECTS_FIELD] = LLSDBoolean(TRUE)
    /\ lastCall.requests[1].responder.mRequestedAgentState = kAgentStateUnfrozen
    /\ lastCall.requests[1] \in InFlight("AgentStateResponder")

----------------------------------------------------------------------------
(* The navmesh requests: what is checked of a region without the capability. *)

\* The entry of pRegion holds current data.
IsCurrent(pRegion) ==
    /\ RegionUUID(pRegion) \in DOMAIN mNavMeshMap
    /\ hasNavMeshVersion(mNavMeshMap[RegionUUID(pRegion)], mNavMeshVersionXXX)

\* The manager as the next member function finds it after one that left it as
\* this.
NextCall(this) == [this EXCEPT !.notified = <<>>, !.requests = <<>>]

\* C26: requestGetNavMeshForRegion for a null region, or a region whose
\* retrieve-navmesh URL is empty, whose entry is not current leaves the entry
\* NotEnabled, telling its slots so, and issues nothing; a call after it for
\* the same region, now granting the capability, leaves the entry
\* RequestStarted and issues one operation for that entry.
C26_NotEnabledUntilCapable ==
    \A pRegion \in NavMeshRegions :
        LET navMeshPtr == RegionUUID(pRegion)
            after == requestGetNavMeshForRegion(ThisNavMeshManager, pRegion)
        IN  (/\ ~IsCurrent(pRegion)
             /\ pRegion = NULL \/ getRetrieveNavMeshURLForRegion(pRegion) = "")
            => /\ after.mNavMeshMap[navMeshPtr].mNavMeshRequestStatus = kNavMeshNotEnabled
               /\ after.requests = <<>>
               /\ \A i \in DOMAIN after.notified :
                      after.notified[i].status = kNavMeshNotEnabled
               /\ \A gained \in CapableNavMeshRegions :
                      RegionUUID(gained) = navMeshPtr
                      => LET later == requestGetNavMeshForRegion(NextCall(after), gained)
                         IN  /\ later.mNavMeshMap[navMeshPtr].mNavMeshRequestStatus
                                   = kNavMeshRequestStarted
                             /\ Len(later.requests) = 1
                             /\ later.requests[1].responder.mNavMeshPtr = navMeshPtr

\* C26's case: requestGetNavMeshForRegion for a region without the capability
\* has left its entry NotEnabled and told the slot connected to it, with no
\* operation issued.
C26_Witness ==
    /\ lastCall.op = "requestGetNavMeshForRegion"
    /\ lastCall.args[1] \in RegionIds
    /\ lastCall.requests = <<>>
    /\ mNavMeshMap[lastCall.args[1]].mNavMeshRequestStatus = kNavMeshNotEnabled
    /\ Len(lastCall.notified) = 1
    /\ lastCall.notified[1].status = kNavMeshNotEnabled
    /\ http = EmptyBag

----------------------------------------------------------------------------
(* The navmesh requests: what is checked of a region with the capability.  *)

\* C27: requestGetNavMeshForRegion for a region that grants the
\* retrieve-navmesh capability and whose entry is not current leaves the entry
\* RequestStarted with the manager's version, its slots told RequestStarted
\* with that version, the counter as it was, and issues exactly one operation,
\* to the capability, whose responder holds that version and that entry; and
\* the operation such a call has issued is in flight with the version the
\* entry then holds.
C27_StartThenOneTaggedRequest ==
    /\ \A pRegion \in CapableNavMeshRegions :
           LET navMeshPtr == RegionUUID(pRegion)
               after == requestGetNavMeshForRegion(ThisNavMeshManager, pRegion)
               started == after.mNavMeshMap[navMeshPtr]
           IN  ~IsCurrent(pRegion)
               => /\ started.mNavMeshRequestStatus = kNavMeshRequestStarted
                  /\ started.mNavMeshVersion = mNavMeshVersionXXX
                  /\ after.mNavMeshVersionXXX = mNavMeshVersionXXX
                  /\ Len(after.notified) = Len(started.mNavMeshSignal)
                  /\ \A i \in DOMAIN after.notified :
                         /\ after.notified[i].status = kNavMeshRequestStarted
                         /\ after.notified[i].version = mNavMeshVersionXXX
                  /\ Len(after.requests) = 1
                  /\ after.requests[1].method = "post"
                  /\ after.requests[1].url = getRetrieveNavMeshURLForRegion(pRegion)
                  /\ after.requests[1].responder
                        = NavMeshResponder(getRetrieveNavMeshURLForRegion(pRegion),
                                           mNavMeshVersionXXX, navMeshPtr)
    /\ (lastCall.op = "requestGetNavMeshForRegion" /\ lastCall.requests # <<>>)
       => /\ Len(lastCall.requests) = 1
          /\ lastCall.requests[1] \in InFlight("NavMeshResponder")
          /\ lastCall.requests[1].responder.mNavMeshPtr = lastCall.args[1]
          /\ lastCall.requests[1].responder.mNavMeshVersion
                = mNavMeshMap[lastCall.args[1]].mNavMeshVersion
          /\ mNavMeshMap[lastCall.args[1]].mNavMeshVersion = mNavMeshVersionXXX
          /\ mNavMeshMap[lastCall.args[1]].mNavMeshRequestStatus = kNavMeshRequestStarted

\* C27's case: after a notification, requestGetNavMeshForRegion has left the
\* entry of a region RequestStarted with version 1 and issued one operation
\* whose responder holds version 1 and that entry.
C27_Witness ==
    /\ lastCall.op = "requestGetNavMeshForRegion"
    /\ Len(lastCall.requests) = 1
    /\ mNavMeshVersionXXX = U32(1)
    /\ lastCall.requests[1].responder.mNavMeshVersion = U32(1)
    /\ lastCall.requests[1].responder.mNavMeshPtr = lastCall.args[1]
    /\ mNavMeshMap[lastCall.args[1]].mNavMeshRequestStatus = kNavMeshRequestStarted
    /\ mNavMeshMap[lastCall.args[1]].mNavMeshVersion = U32(1)
    /\ lastCall.requests[1] \in InFlight("NavMeshResponder")

----------------------------------------------------------------------------
(* The agent-state response: what is checked of its decoding.              *)

\* The state a boolean field stands for.
StateOfField(sd) ==
    IF sd = LLSDBoolean(TRUE) THEN kAgentStateUnfrozen ELSE kAgentStateFrozen

\* The state the manager holds after a response that decodes to decoded, for
\* an operation whose responder holds pRequestedAgentState.
StateAfterDecoding(decoded, pRequestedAgentState) ==
    IF pRequestedAgentState \in {kAgentStateFrozen, kAgentStateUnfrozen}
       /\ decoded # pRequestedAgentState
    THEN kAgentStateError
    ELSE decoded

\* C28: after the result of an agent-state operation, if the body has the
\* primary field the state is the one decoded from it, whatever the deprecated
\* field holds, and if it has the deprecated field alone the state is the one
\* decoded from that: Unfrozen for true and Frozen for false, or Error if the
\* responder holds the other of the two; and the state is Frozen, Unfrozen or
\* Error after every result.
C28_PrimaryFieldFirst ==
    lastCall.op = "AgentStateResponder::result"
    => LET pContent == lastCall.args[1]
           primary == pContent[ALTER_NAVMESH_OBJECTS_FIELD]
           deprecated == pContent[DEPRECATED_ALTER_NAVMESH_OBJECTS_FIELD]
       IN  /\ primary # LLSDUndefined
              => mAgentState = StateAfterDecoding(StateOfField(primary), lastCall.args[2])
           /\ (primary = LLSDUndefined /\ deprecated # LLSDUndefined)
              => mAgentState = StateAfterDecoding(StateOfField(deprecated), lastCall.args[2])
           /\ mAgentState \in {kAgentStateFrozen, kAgentStateUnfrozen, kAgentStateError}
           /\ lastCall.llassertFailed
              <=> \/ primary = LLSDUndefined /\ deprecated = LLSDUndefined
                  \/ mAgentState = kAgentStateError

\* C28's case: the response to a GET holds false under the primary field and
\* true under the deprecated one, and the state becomes Frozen.
C28_Witness ==
    /\ lastCall.op = "AgentStateResponder::result"
    /\ lastCall.args[2] = kAgentStateUnknown
    /\ lastCall.args[1][ALTER_NAVMESH_OBJECTS_FIELD] = LLSDBoolean(FALSE)
    /\ lastCall.args[1][DEPRECATED_ALTER_NAVMESH_OBJECTS_FIELD] = LLSDBoolean(TRUE)
    /\ mAgentState = kAgentStateFrozen
    /\ mLastKnownNonErrorAgentState = kAgentStateFrozen

----------------------------------------------------------------------------
(* The linksets join: what is checked of a failed object branch.           *)

\* C29: when the object branch failed and the terrain branch succeeded,
\* whichever was answered last, the callback was invoked once, with Error and a
\* list, not null, that holds the terrain's linkset under the terrain's
\* identifier and nothing else; when both branches failed it was invoked once,
\* with Error and a list, not null, that is empty.
C29_ObjectErrorKeepsTerrain ==
    \A ptr \in DOMAIN linksetsResponders :
        LET self == linksetsResponders[ptr]
        IN  /\ (/\ self.mObjectMessagingState = kReceivedError
                /\ self.mTerrainMessagingState = kReceivedGood)
               => /\ Len(self.callbackLog) = 1
                  /\ self.callbackLog[1].requestStatus = kLinksetsRequestError
                  /\ self.callbackLog[1].linksetList # NULL
                  /\ DOMAIN self.callbackLog[1].linksetList = {TerrainId}
                  /\ self.callbackLog[1].linksetList[TerrainId] =
                         [mUUID |-> TerrainId,
                          mLinksetUse |-> linksetsReceived[ptr].terrain.linkset_use,
                          mIsTerrain |-> TRUE]
            /\ (/\ self.mObjectMessagingState = kReceivedError
                /\ self.mTerrainMessagingState = kReceivedError)
               => /\ Len(self.callbackLog) = 1
                  /\ self.callbackLog[1].requestStatus = kLinksetsRequestError
                  /\ self.callbackLog[1].linksetList # NULL
                  /\ self.callbackLog[1].linksetList = LLPathfindingLinksetListEmpty

\* C29's case: the object's error arrived first, the terrain's result last,
\* and the callback was handed Error and the terrain's linkset alone.
C29_Witness ==
    \E ptr \in DOMAIN linksetsResponders :
        /\ lastCall.op = "TerrainLinksetsResponder::result"
        /\ lastCall.responder = ptr
        /\ linksetsResponders[ptr].mObjectMessagingState = kReceivedError
        /\ Len(linksetsResponders[ptr].callbackLog) = 1
        /\ linksetsResponders[ptr].callbackLog[1].requestStatus = kLinksetsRequestError
        /\ DOMAIN linksetsResponders[ptr].callbackLog[1].linksetList = {TerrainId}

----------------------------------------------------------------------------
(* The LinksetsResponder handlers run statement by statement.              *)

\* The branches of a LinksetsResponder.
Branches == {"object", "terrain"}

\* The first statement of a result handler: the list, or the terrain's linkset,
\* built from the body is stored.
storeReceived(self, branch, pContent) ==
    IF branch = "object"
    THEN [self EXCEPT !.mObjectLinksetListPtr = LLPathfindingLinksetList(pContent)]
    ELSE [self EXCEPT !.mTerrainLinksetPtr = LLPathfindingLinksetTerrain(pContent)]

\* The statement of a handler that writes the messaging state of its branch.
writeMessagingState(self, branch, state) ==
    IF branch = "object"
    THEN [self EXCEPT !.mObjectMessagingState = state]
    ELSE [self EXCEPT !.mTerrainMessagingState = state]

\* The test of a handler reading the other branch as answered only once that
\* branch has succeeded.
isOtherBranchNotWaitingOnlyGood(self, branch) ==
    IF branch = "object"
    THEN self.mTerrainMessagingState \in {kReceivedGood, kNotRequested}
    ELSE self.mObjectMessagingState \in {kReceivedGood, kNotRequested}

\* The test of a handler: the other branch is not kWaiting.
isOtherBranchNotWaiting(self, branch) ==
    IF branch = "object"
    THEN self.mTerrainMessagingState # kWaiting
    ELSE self.mObjectMessagingState # kWaiting

\* A handler under way: the branch and LinksetsResponder it runs for, what it
\* was handed and the statement it is at.
Handler(branch, ptr, good, input, at) ==
    [branch |-> branch, ptr |-> ptr, good |-> good, input |-> input, at |-> at]

\* The state after the handler running has run one statement and is at next,
\* or has returned if next is "return".
StatementDone(running, next, self) ==
    /\ ~crashed
    /\ linksetsResponders' = [linksetsResponders EXCEPT ![running.ptr] = self]
    /\ handlersRunning' =
           (handlersRunning \ {running})
           \cup (IF next = "return" THEN {} ELSE {[running EXCEPT !.at = next]})
    /\ lastCall' = [op |-> "LinksetsResponder", responder |-> running.ptr,
                    branch |-> running.branch, statement |-> running.at]
    /\ UNCHANGED <<http, navMeshVars, agentStateVars, crashed>>

\* ObjectLinksetsResponder or TerrainLinksetsResponder result or error is
\* called: the handler of the branch starts, at its first statement.
ResponderCalled ==
    /\ ~crashed
    /\ \E req \in InFlight("ObjectLinksetsResponder") \cup InFlight("TerrainLinksetsResponder") :
        LET branch == IF req.responder.class = "ObjectLinksetsResponder"
                      THEN "object" ELSE "terrain"
            ptr == req.responder.mLinksetsResponsderPtr
        IN  /\ \/ \E pContent \in IF branch = "object" THEN ObjectLinksetsContents
                                                      ELSE TerrainLinksetsContents :
                      handlersRunning' = handlersRunning
                          \cup {Handler(branch, ptr, TRUE, pContent, "store")}
               \/ \E pStatus \in ErrorStatuses :
                      handlersRunning' = handlersRunning
                          \cup {Handler(branch, ptr, FALSE, pStatus, "write")}
            /\ http' = http (-) SetToBag({req})
            /\ lastCall' = [op |-> "LinksetsResponder", responder |-> ptr,
                            branch |-> branch, statement |-> "call"]
            /\ UNCHANGED <<linksetsResponders, linksetsReceived, navMeshVars,
                           agentStateVars, crashed>>

\* mObjectLinksetListPtr = ..., or mTerrainLinksetPtr = ...
StoreStatement ==
    \E running \in handlersRunning :
        /\ running.at = "store"
        /\ StatementDone(running, "write",
               storeReceived(linksetsResponders[running.ptr], running.branch,
                             running.input))
        /\ linksetsReceived' =
               IF running.branch = "object"
               THEN [linksetsReceived EXCEPT ![running.ptr].object = running.input]
               ELSE [linksetsReceived EXCEPT ![running.ptr].terrain = running.input]

\* mObjectMessagingState = ..., or mTerrainMessagingState = ...
WriteStatement ==
    \E running \in handlersRunning :
        /\ running.at = "write"
        /\ StatementDone(running, "check",
               writeMessagingState(linksetsResponders[running.ptr], running.branch,
                   IF running.good THEN kReceivedGood ELSE kReceivedError))
        /\ UNCHANGED linksetsReceived

\* if (mTerrainMessagingState != kWaiting), or if (mObjectMessagingState != kWaiting)
CheckStatement ==
    \E running \in handlersRunning :
        /\ running.at = "check"
        /\ StatementDone(running,
               IF isOtherBranchNotWaiting(linksetsResponders[running.ptr],
                                          running.branch)
               THEN "sendCallback" ELSE "return",
               linksetsResponders[running.ptr])
        /\ UNCHANGED linksetsReceived

\* sendCallback();
SendCallbackStatement ==
    \E running \in handlersRunning :
        /\ running.at = "sendCallback"
        /\ StatementDone(running, "return",
               sendCallback(linksetsResponders[running.ptr]))
        /\ UNCHANGED linksetsReceived

\* The linksets requests, and the handlers of their completions run one
\* statement at a time, those of the two branches of a LinksetsResponder in
\* any interleaving.
NextInterleaved ==
    \/ RequestGetLinksets
    \/ RequestSetLinksets
    \/ ResponderCalled
    \/ StoreStatement
    \/ WriteStatement
    \/ CheckStatement
    \/ SendCallbackStatement

SpecInterleaved == Init /\ [][NextInterleaved]_vars

\* The handlers of the LinksetsResponder ptr that are under way.
RunningFor(ptr) == {running \in handlersRunning : running.ptr = ptr}

\* C30: with the handlers of the two branches interleaved statement by
\* statement, a LinksetsResponder all of whose operations were answered and
\* whose handlers have returned has invoked its callback once or twice, never
\* zero times; the callback is invoked only with no branch kWaiting; and it is
\* invoked twice only if both branches were requested.  (The execution with
\* two invocations is C30_Witness.)
C30_InterleavedNeverZero ==
    \A ptr \in DOMAIN linksetsResponders :
        LET self == linksetsResponders[ptr]
        IN  /\ Len(self.callbackLog) <= 2
            /\ (PendingFor(ptr) = 0 /\ RunningFor(ptr) = {})
               => Len(self.callbackLog) >= 1
            /\ \A i \in DOMAIN self.callbackLog :
                   /\ self.callbackLog[i].objectState # kWaiting
                   /\ self.callbackLog[i].terrainState # kWaiting
            /\ Len(self.callbackLog) = 2
               => /\ self.mObjectMessagingState \in {kReceivedGood, kReceivedError}
                  /\ self.mTerrainMessagingState \in {kReceivedGood, kReceivedError}

\* C30's case: both handlers of a LinksetsResponder wrote their state before
\* either tested the other's, both have returned, and the callback was invoked
\* twice.
C30_Witness ==
    \E ptr \in DOMAIN linksetsResponders :
        /\ PendingFor(ptr) = 0
        /\ RunningFor(ptr) = {}
        /\ Len(linksetsResponders[ptr].callbackLog) = 2
        /\ lastCall.op = "LinksetsResponder"
        /\ lastCall.statement = "sendCallback"

----------------------------------------------------------------------------
(* The navmesh results: what is checked of the version they store.         *)

\* C31: after the result of a navmesh operation the entry is RequestCompleted
\* with the version the responder was constructed with; if the counter is no
\* longer that version (a notification arrived while the operation was in
\* flight) the entry is not current, and requestGetNavMeshForRegion for that
\* region, granting the capability, tells the slots RequestStarted, not a
\* refresh, and issues one operation, with the counter's version.
C31_ResultKeepsRequestVersion ==
    lastCall.op = "NavMeshResponder::result"
    => LET navMeshPtr == lastCall.args[1]
           navMesh == mNavMeshMap[navMeshPtr]
       IN  /\ navMesh.mNavMeshRequestStatus = kNavMeshRequestCompleted
           /\ navMesh.mNavMeshVersion = lastCall.args[2]
           /\ lastCall.args[2] # mNavMeshVersionXXX
              => /\ ~hasNavMeshVersion(navMesh, mNavMeshVersionXXX)
                 /\ \A pRegion \in CapableNavMeshRegions :
                        RegionUUID(pRegion) = navMeshPtr
                        => LET after == requestGetNavMeshForRegion(
                                            ThisNavMeshManager, pRegion)
                           IN  /\ Len(after.requests) = 1
                               /\ after.requests[1].responder.mNavMeshVersion
                                     = mNavMeshVersionXXX
                               /\ after.mNavMeshMap[navMeshPtr].mNavMeshRequestStatus
                                     = kNavMeshRequestStarted
                               /\ \A i \in DOMAIN after.notified :
                                      after.notified[i].status = kNavMeshRequestStarted

\* C31's case: a notification made the counter 1 while an operation with
\* version 0 was in flight for a region; its result was handled, the slot of
\* the entry was told RequestCompleted with version 0, and nothing is in
\* flight.
C31_Witness ==
    /\ lastCall.op = "NavMeshResponder::result"
    /\ lastCall.args[1] \in RegionIds
    /\ lastCall.args[2] = U32(0)
    /\ mNavMeshVersionXXX = U32(1)
    /\ Len(lastCall.notified) = 1
    /\ lastCall.notified[1].status = kNavMeshRequestCompleted
    /\ lastCall.notified[1].version = U32(0)
    /\ http = EmptyBag

----------------------------------------------------------------------------
(* The linksets requests: what is checked of the operations they issue.    *)

\* The operations of requests whose responder is of class and is bound to the
\* LinksetsResponder ptr.
OperationsOf(requests, class, ptr) ==
    {i \in DOMAIN requests :
        /\ requests[i].responder.class = class
        /\ requests[i].responder.mLinksetsResponsderPtr = ptr}

\* The operations in flight for one branch of the LinksetsResponder ptr.
PendingForBranch(class, ptr) ==
    LET mine == {req \in InFlight(class) : req.responder.mLinksetsResponsderPtr = ptr}
    IN  BagCardinality([req \in mine |-> http[req]])

\* C32: a linksets request that has returned Started has issued as many
\* operations as its LinksetsResponder has branches kWaiting, one with an
\* ObjectLinksetsResponder bound to it exactly if the object branch is
\* kWaiting and one with a TerrainLinksetsResponder bound to it exactly if the
\* terrain branch is, every branch being kWaiting or kNotRequested and at least
\* one kWaiting; and at any time a branch is kWaiting exactly if one operation
\* is in flight for it, and has none otherwise.
C32_OneOperationPerWaitingBranch ==
    /\ (/\ lastCall.op \in {"requestGetLinksets", "requestSetLinksets"}
        /\ lastCall.status = kLinksetsRequestStarted)
       => LET ptr == lastCall.responder
              self == linksetsResponders[ptr]
              objectOps == OperationsOf(lastCall.requests, "ObjectLinksetsResponder", ptr)
              terrainOps == OperationsOf(lastCall.requests, "TerrainLinksetsResponder", ptr)
          IN  /\ self.mObjectMessagingState \in {kWaiting, kNotRequested}
              /\ self.mTerrainMessagingState \in {kWaiting, kNotRequested}
              /\ Len(lastCall.requests) = WaitingBranches(ptr)
              /\ Len(lastCall.requests) >= 1
              /\ objectOps \cup terrainOps = DOMAIN lastCall.requests
              /\ Cardinality(objectOps)
                    = IF self.mObjectMessagingState = kWaiting THEN 1 ELSE 0
              /\ Cardinality(terrainOps)
                    = IF self.mTerrainMessagingState = kWaiting THEN 1 ELSE 0
    /\ \A ptr \in DOMAIN linksetsResponders :
           /\ PendingForBranch("ObjectLinksetsResponder", ptr)
                 = IF linksetsResponders[ptr].mObjectMessagingState = kWaiting
                   THEN 1 ELSE 0
           /\ PendingForBranch("TerrainLinksetsResponder", ptr)
                 = IF linksetsResponders[ptr].mTerrainMessagingState = kWaiting
                   THEN 1 ELSE 0

\* C32's case: requestSetLinksets had terrain fields and no object fields to
\* send; it returned Started with the object branch kNotRequested and issued
\* the terrain's PUT alone.
C32_Witness ==
    /\ lastCall.op = "requestSetLinksets"
    /\ lastCall.status = kLinksetsRequestStarted
    /\ linksetsResponders[lastCall.responder].mObjectMessagingState = kNotRequested
    /\ linksetsResponders[lastCall.responder].mTerrainMessagingState = kWaiting
    /\ Len(lastCall.requests) = 1
    /\ lastCall.requests[1].method = "put"
    /\ lastCall.requests[1].responder.class = "TerrainLinksetsResponder"

----------------------------------------------------------------------------
(* The linksets requests: what is checked of those that do not start.      *)

\* The callbacks invoked so far, over all LinksetsResponders.
CallbacksInvoked ==
    LET RECURSIVE Sum(_)
        Sum(ptr) == IF ptr = 0 THEN 0
                    ELSE Len(linksetsResponders[ptr].callbackLog) + Sum(ptr - 1)
    IN  Sum(Len(linksetsResponders))

\* C33: requestGetLinksets returns a status other than Started exactly if a
\* capability URL is empty, and requestSetLinksets exactly if one is or both
\* encoded payloads are undefined (the terrain's being undefined for a caller
\* who may not view the terrain properties); such a call constructs no
\* LinksetsResponder and issues nothing, and the step that makes it leaves the
\* operations in flight, the LinksetsResponders and the callbacks invoked as
\* they were.
C33_NotStartedDoesNothing ==
    /\ [](\A agent \in LinksetsAgents, pLinksetsCallback \in LinksetsCallbacks :
            LET ptr == Len(linksetsResponders) + 1
                noCapability == \/ getObjectLinksetsURLForCurrentRegion(agent) = ""
                                \/ getTerrainLinksetsURLForCurrentRegion(agent) = ""
                got == requestGetLinksets(agent, pLinksetsCallback, ptr)
            IN  /\ got.status # kLinksetsRequestStarted <=> noCapability
                /\ got.status # kLinksetsRequestStarted
                   => got.responder = NULL /\ got.requests = <<>>
                /\ \A objectFields \in ObjectPostDatas, terrainFields \in TerrainPostDatas :
                       LET set == requestSetLinksets(agent, objectFields, terrainFields,
                                                     pLinksetsCallback, ptr)
                           nothingToSend ==
                               /\ objectFields = LLSDUndefined
                               /\ \/ terrainFields = LLSDUndefined
                                  \/ ~isAllowViewTerrainProperties(agent)
                       IN  /\ set.status # kLinksetsRequestStarted
                              <=> (noCapability \/ nothingToSend)
                           /\ set.status # kLinksetsRequestStarted
                              => set.responder = NULL /\ set.requests = <<>>)
    /\ [][(/\ lastCall'.op \in {"requestGetLinksets", "requestSetLinksets"}
           /\ lastCall'.status # kLinksetsRequestStarted)
          => /\ http' = http
             /\ linksetsResponders' = linksetsResponders
             /\ linksetsReceived' = linksetsReceived
             /\ CallbacksInvoked' = CallbacksInvoked
             /\ lastCall'.requests = <<>>]_vars

\* C33's case: requestGetLinksets returned NotEnabled while the operations of
\* an earlier request were in flight, and left them and the callback alone.
C33_Witness ==
    /\ lastCall.op = "requestGetLinksets"
    /\ lastCall.status = kLinksetsRequestNotEnabled
    /\ lastCall.requests = <<>>
    /\ Len(linksetsResponders) = 1
    /\ PendingFor(1) = 2
    /\ CallbacksInvoked = 0

----------------------------------------------------------------------------
(* The agent-state responses: what is checked of the answer to a GET.      *)

\* The targets of the set operations in flight.
TargetsInFlight ==
    {req.responder.mRequestedAgentState :
        req \in {r \in InFlight("AgentStateResponder") : r.method = "post"}}

\* C34: after the result of an operation whose responder holds Unknown (a
\* GET), whatever set operations are in flight and whatever the state was, the
\* state is the Frozen or Unfrozen decoded from the body, never Error, the
\* last known non-error state with it; setAgentState ran once, and no llassert
\* failed but those on a body with neither field.
C34_GetAnswerNeverMismatch ==
    (/\ lastCall.op = "AgentStateResponder::result"
     /\ lastCall.args[2] = kAgentStateUnknown)
    => /\ mAgentState = AnsweredState(lastCall.args[1])
       /\ mAgentState \in {kAgentStateFrozen, kAgentStateUnfrozen}
       /\ mLastKnownNonErrorAgentState = mAgentState
       /\ lastCall.setAgentStateCalls = 1
       /\ lastCall.llassertFailed
          <=> /\ lastCall.args[1][ALTER_NAVMESH_OBJECTS_FIELD] = LLSDUndefined
              /\ lastCall.args[1][DEPRECATED_ALTER_NAVMESH_OBJECTS_FIELD] = LLSDUndefined

\* C34's case: the answer to a GET says that altering is allowed while
\* requestSetAgentState(Frozen) is in flight, and the state becomes Unfrozen.
C34_Witness ==
    /\ lastCall.op = "AgentStateResponder::result"
    /\ lastCall.args[2] = kAgentStateUnknown
    /\ lastCall.args[1][ALTER_NAVMESH_OBJECTS_FIELD] = LLSDBoolean(TRUE)
    /\ mAgentState = kAgentStateUnfrozen
    /\ TargetsInFlight = {kAgentStateFrozen}

----------------------------------------------------------------------------
(* The agent-state responses: what is checked of their order.              *)

\* What the HTTP client may hand the responder of an agent-state operation: a
\* body, or the status of a transport error.
AgentStateAnswers ==
    {[good |-> TRUE, content |-> pContent] : pContent \in AgentStateContents}
    \cup {[good |-> FALSE, status |-> pStatus] : pStatus \in ErrorStatuses}

\* The manager after the responder of req was handed answer.
AgentStateResponderAnswered(this, req, answer) ==
    IF answer.good
    THEN handleAgentStateResult(this, answer.content,
                                req.responder.mRequestedAgentState)
    ELSE handleAgentStateError(this, answer.status, req.responder.mCapabilityURL)

\* The state an answer stands for, by itself: Error for a transport error, and
\* for a body the state decoded from it, or Error if the responder holds the
\* other of Frozen and Unfrozen.
OutcomeOf(req, answer) ==
    IF answer.good
    THEN StateAfterDecoding(AnsweredState(answer.content),
                            req.responder.mRequestedAgentState)
    ELSE kAgentStateError

\* The manager as the next handler finds it after one that left it as this.
NextHandler(this) ==
    [this EXCEPT !.signalled = <<>>, !.requests = <<>>, !.setAgentStateCalls = 0,
                 !.llassertFailed = FALSE, !.returned = NULL]

\* C35: for any two agent-state operations in flight and any answers to them,
\* the state after both were handled is the outcome of the one handled last,
\* whichever that is and whatever the first one left; and the state after any
\* completion is the outcome of that completion, whatever the state was.
C35_LastResponseWins ==
    /\ \A first \in InFlight("AgentStateResponder"),
          last \in InFlight("AgentStateResponder") :
           (first # last \/ http[first] >= 2)
           => \A answer1 \in AgentStateAnswers, answer2 \in AgentStateAnswers :
                  AgentStateResponderAnswered(
                      NextHandler(AgentStateResponderAnswered(ThisManager, first, answer1)),
                      last, answer2).mAgentState
                  = OutcomeOf(last, answer2)
    /\ lastCall.op = "AgentStateResponder::result"
       => mAgentState = StateAfterDecoding(AnsweredState(lastCall.args[1]),
                                           lastCall.args[2])
    /\ lastCall.op = "AgentStateResponder::error" => mAgentState = kAgentStateError

\* C35's case: the state was Unfrozen, as the answer to a
\* requestSetAgentState(Unfrozen) leaves it, when the matching answer to a
\* requestSetAgentState(Frozen) was handled last: the state is Frozen and
\* nothing is in flight.
C35_Witness ==
    /\ lastCall.op = "AgentStateResponder::result"
    /\ lastCall.args[2] = kAgentStateFrozen
    /\ lastCall.args[1][ALTER_NAVMESH_OBJECTS_FIELD] = LLSDBoolean(FALSE)
    /\ lastCall.was = kAgentStateUnfrozen
    /\ mAgentState = kAgentStateFrozen
    /\ mLastKnownNonErrorAgentState = kAgentStateFrozen
    /\ http = EmptyBag

\* C36: once the agent state has left Unknown no operation, response or
\* transport error makes it Unknown again, and the last known non-error state,
\* once it has held another value, never returns to Unknown either.
C36_UnknownOnlyAtStart ==
    [][/\ mAgentState # kAgentStateUnknown => mAgentState' # kAgentStateUnknown
       /\ mLastKnownNonErrorAgentState # kAgentStateUnknown
              => mLastKnownNonErrorAgentState' # kAgentStateUnknown]_vars

\* A transport error has been handled after the state was Frozen: the state is
\* Error and the last known non-error state is still Frozen.
C36_Witness ==
    /\ lastCall.op = "AgentStateResponder::error"
    /\ lastCall.was = kAgentStateFrozen
    /\ mAgentState = kAgentStateError
    /\ mLastKnownNonErrorAgentState = kAgentStateFrozen

\* What a member function did to the manager, its return value apart.
EffectsOf(this) == [this EXCEPT !.returned = NULL]

\* C37 as stated: isAllowAlterPermanent returns TRUE exactly when pathfinding
\* is disabled or getAgentState returns Unfrozen; disabled, it leaves the
\* manager alone; enabled, it does what getAgentState does, and issues a GET
\* whenever the state is neither Frozen nor Unfrozen.
C37_EnabledGetsWheneverNotValid ==
    \A agent \in AgentStateAgents :
        LET after == isAllowAlterPermanent(ThisManager, agent)
            got == getAgentState(ThisManager, agent)
        IN  IF ~isPathfindingEnabledForCurrentRegion(agent)
            THEN /\ after.returned = TRUE
                 /\ EffectsOf(after) = EffectsOf(ThisManager)
            ELSE /\ after.returned = (got.returned = kAgentStateUnfrozen)
                 /\ EffectsOf(after) = EffectsOf(got)
                 /\ ~isValidAgentState(mAgentState)
                    => /\ Len(after.requests) = 1
                       /\ after.requests[1].method = "get"

\* C37 as the code has it: the same, the GET being issued on a state that is
\* neither Frozen nor Unfrozen only if the region grants the agent-state
\* capability; if it does not, nothing is issued, the state becomes NotEnabled,
\* every connected slot is told so, and FALSE is returned.
C37_EnabledDoesAsGetAgentState ==
    \A agent \in AgentStateAgents :
        LET after == isAllowAlterPermanent(ThisManager, agent)
            got == getAgentState(ThisManager, agent)
            agentStateURL == getAgentStateURLForCurrentRegion(agent)
        IN  IF ~isPathfindingEnabledForCurrentRegion(agent)
            THEN /\ after.returned = TRUE
                 /\ EffectsOf(after) = EffectsOf(ThisManager)
            ELSE /\ after.returned = (got.returned = kAgentStateUnfrozen)
                 /\ EffectsOf(after) = EffectsOf(got)
                 /\ isValidAgentState(mAgentState)
                    => /\ after.requests = <<>>
                       /\ after.signalled = <<>>
                       /\ after.mAgentState = mAgentState
                       /\ after.returned = (mAgentState = kAgentStateUnfrozen)
                 /\ (~isValidAgentState(mAgentState) /\ agentStateURL # "")
                    => /\ Len(after.requests) = 1
                       /\ after.requests[1].method = "get"
                       /\ after.requests[1].url = agentStateURL
                       /\ after.signalled = <<>>
                       /\ after.mAgentState = mAgentState
                       /\ after.returned = FALSE
                 /\ (~isValidAgentState(mAgentState) /\ agentStateURL = "")
                    => /\ after.requests = <<>>
                       /\ ToldOnce(after.signalled, kAgentStateNotEnabled)
                       /\ after.mAgentState = kAgentStateNotEnabled
                       /\ after.returned = FALSE

\* C37's case: pathfinding enabled and the state Error, isAllowAlterPermanent
\* issued a GET and returned FALSE.
C37_Witness ==
    /\ lastCall.op = "isAllowAlterPermanent"
    /\ lastCall.was = kAgentStateError
    /\ Len(lastCall.requests) = 1
    /\ lastCall.requests[1].method = "get"
    /\ lastCall.returned = FALSE
    /\ mAgentState = kAgentStateError

\* C38: the handler of the simulator's NavmeshStatusUpdate message is safe in
\* every state, the agent having no current region included: it never reads
\* the id through a null region, the viewer does not crash, and the
\* notification goes to the entry of the current region's id.
C38_PushHandlerNeverReadsNullRegion ==
    /\ ~crashed
    /\ lastCall.op = "LLNavMeshSimStateChangeNode::post"
       => /\ lastCall.args[1] # NULL
          /\ lastCall.args[1].mRegionID \in DOMAIN mNavMeshMap

\* The member functions and handlers of the linksets service.
LinksetsOperations ==
    {"requestGetLinksets", "requestSetLinksets",
     "ObjectLinksetsResponder::result", "ObjectLinksetsResponder::error",
     "TerrainLinksetsResponder::result", "TerrainLinksetsResponder::error"}

\* C39: requestGetLinksets, requestSetLinksets and the handling of the object
\* and terrain completions leave the agent state, the last known non-error
\* agent state, the navmesh version counter and the map of the entries as they
\* found them, whatever values these hold.
C39_LinksetsLeaveOtherServicesAlone ==
    [][lastCall'.op \in LinksetsOperations
       => /\ mAgentState' = mAgentState
          /\ mLastKnownNonErrorAgentState' = mLastKnownNonErrorAgentState
          /\ mNavMeshVersionXXX' = mNavMeshVersionXXX
          /\ mNavMeshMap' = mNavMeshMap]_vars

\* C39's case: the agent state is Frozen, one notification was counted and
\* its region has an entry; a linksets request was made and both of its
\* completions were handled.
C39_Witness ==
    /\ lastCall.op \in {"ObjectLinksetsResponder::result",
                        "TerrainLinksetsResponder::result"}
    /\ linksetsResponders # <<>>
    /\ http = EmptyBag
    /\ mAgentState = kAgentStateFrozen
    /\ mLastKnownNonErrorAgentState = kAgentStateFrozen
    /\ mNavMeshVersionXXX = U32(1)
    /\ mNavMeshMap # <<>>

====
